---- MODULE Spec2Model ----
(***************************************************************************)
(* A state-machine model of the link-analysis solvers of                   *)
(* src/Assignment2/Pagerank_vs_HITS.md: randomised_hits and subspace_hits, *)
(* and the PageRank update that the call nx.pagerank stands for.           *)
(* Further parts: the edge list and the graph built from it, the script    *)
(* that runs and prints the algorithms, run_query's personalization vector *)
(* and the OneMap result cache of src/SG_hangout_guide/server.js.          *)
(*                                                                         *)
(* Numbers.  The Python code works on float64 arrays.  Here a real number  *)
(* r is the integer r * SCALE (fixed point), rounded where the code        *)
(* divides or takes a square root.  A vector is a record                   *)
(*   [nan |-> whether every entry is NaN, v |-> the entries],              *)
(* because the only way the code produces NaN is the in-place division of  *)
(* an all-zero vector by its zero norm, which makes every entry NaN.       *)
(* eps is held in percent (15 is the default 0.15) and tol in units of     *)
(* 1/SCALE, so tol = 1 stands for a tolerance below the resolution of the  *)
(* model: the test passes only when two iterates agree exactly.            *)
(***************************************************************************)
EXTENDS Integers, Sequences, FiniteSets, TLC

\* ------------------------------------------------------------------ bounds
MaxN == 3
MaxEdges == 3
MaxIter == 3
SCALE == 1000
TolCoarse == 400
DefaultEps == 15
AlphaUnit == 20
DefaultAlpha == 17
PRDenCap == 400000
MaxCalls == 2
MaxUsers == 2
MaxVisits == 3

VARIABLES G, solver, eps, alpha, k_sub, max_iter, tol,
          pc, M, Q, x, x_new, k, steps, broke, hist, ret, err,
          lapack, calls,
          visits, edges, cursor, G_sg,
          runs,
          results,
          hub, hubs,
          top5, shown,
          node_embeddings, sims, p, qpc,
          apiCache, searches, requests, good,
          handled,
          venues, hangouts,
          parseText, criteria, searchTerms, missingCriteria, cpc,
          clock, latestRequestRef, fetches, react

\* G .. tol: the call's inputs (alpha in units of 1/AlphaUnit).  pc: where
\* the call is.  M, Q, x, x_new, k: the function's locals of those names (M
\* is AtA in randomised_hits; k is it in subspace_hits, -1 while unbound).
\* ret, err: what the call returned or raised.  steps, broke, hist: history,
\* not read by any action: the number of passes of the loop body, whether
\* the loop was left by break, and the start vector followed by every value
\* given to x_new.
\* lapack: the eigenbasis np.linalg.eigh returns for the authority matrix of
\* G.  The routine is a function of its input, so the choice among the
\* possible bases is made once.  calls: the calls that have ended, in order.
vars == <<G, solver, eps, alpha, k_sub, max_iter, tol,
          pc, M, Q, x, x_new, k, steps, broke, hist, ret, err,
          lapack, calls,
          visits, edges, cursor, G_sg,
          runs,
          results,
          hub, hubs,
          top5, shown,
          node_embeddings, sims, p, qpc,
          apiCache, searches, requests, good,
          handled,
          venues, hangouts,
          parseText, criteria, searchTerms, missingCriteria, cpc,
          clock, latestRequestRef, fetches, react>>

solverVars == <<G, solver, eps, alpha, k_sub, max_iter, tol,
                pc, M, Q, x, x_new, k, steps, broke, hist, ret, err,
                lapack, calls>>

\* visits: each user's attractions in the order of the reviews.  edges: the
\* dict of that name, as its keys in insertion order and the value of each.
\* cursor: the user and the position in that user's list the loops are at.
\* G_sg: the graph built from edges.
edgeVars == <<visits, edges, cursor, G_sg>>

\* runs: the solver calls that run side by side, each with its own locals
runVars == <<runs>>

\* results: the OrderedDict of that name, one entry per algorithm that was run
resultVars == <<results>>

\* hub: the hub vector HITS keeps next to the authority vector x.  hubs: the
\* hub scores HITS returns.
hitsVars == <<hub, hubs>>

\* top5: the list of that name in the printing loop.  shown: what the loop has
\* printed, one pair of algorithm name and list per pass.
topVars == <<top5, shown>>

\* node_embeddings: the keys of the embedding cache, in order.  sims, p: the
\* dicts of those names in run_query, p as numerators over one denominator.
\* qpc: where run_query is.
queryVars == <<node_embeddings, sims, p, qpc>>

\* apiCache: the Map of that name, from cache key to results.  searches: the
\* lookups made so far, each with what it was given and what it gave back.
\* requests: the terms of the HTTP requests sent to OneMap, in order.  good:
\* history, not read by any action: for each key, the results of the latest
\* search that completed successfully.
cacheVars == <<apiCache, searches, requests, good>>

\* handled: the POST requests the server has taken, in order of arrival, each
\* with its route, the query of its body, where its handler is, what it
\* answered and how many calls it has made to OpenAI and to OneMap.
routeVars == <<handled>>

\* venues: the venue objects in the arrays of apiCache, each with the
\* properties the handlers have set on it.  hangouts: the requests to
\* /api/hangout/search that got past the parse, each with its handler's
\* locals and its answer.
rankVars == <<venues, hangouts>>

\* parseText: what OpenAI answered to the parse of the query.  criteria,
\* searchTerms, missingCriteria: the locals of those names in the handler of
\* /api/hangout/search.  cpc: where that handler is.
criteriaVars == <<parseText, criteria, searchTerms, missingCriteria, cpc>>

\* clock: Date.now() in the browser.  latestRequestRef: the ref of that name
\* in HangoutGuide.  fetches: the calls the component has made to the
\* server, in the order they were issued, each with its kind, its
\* requestTimestamp, whether it is still awaited and, as history, whether
\* the query was cleared after it was issued.  react: the component's state,
\* suggestions, results, error and isLoading.
clientVars == <<clock, latestRequestRef, fetches, react>>

\* everything outside the solver calls
restVars == <<edgeVars, runVars, resultVars, hitsVars, topVars, queryVars, cacheVars, routeVars, rankVars, criteriaVars, clientVars>>

\* what no step of a solver call writes
aside == <<lapack, calls, edgeVars, runVars, resultVars, hitsVars, topVars, queryVars, cacheVars, routeVars, rankVars, criteriaVars, clientVars>>

params == <<G, solver, eps, alpha, k_sub, max_iter, tol>>

\* aside, without hitsVars
asideExceptHits == <<lapack, calls, edgeVars, runVars, resultVars, topVars, queryVars, cacheVars, routeVars, rankVars, criteriaVars, clientVars>>

NoDict == [keys |-> <<>>, val |-> <<>>]

\* key in d
DictHas(d, key) == \E i \in 1..Len(d.keys) : d.keys[i] = key

\* d.get(key, default)
DictGet(d, key, default) == IF DictHas(d, key) THEN d.val[key] ELSE default

\* d[key] = v: a new key goes last, a key already there keeps its place
DictSet(d, key, v) ==
    [keys |-> IF DictHas(d, key) THEN d.keys ELSE Append(d.keys, key),
     val |-> [c \in (DOMAIN d.val) \cup {key} |-> IF c = key THEN v ELSE d.val[c]]]

\* the edge list is not being built
IdleEdges ==
    /\ visits = <<>>
    /\ edges = NoDict
    /\ cursor = <<0, 0>>
    /\ G_sg = NoDict

\* no calls run side by side
IdleRuns ==
    /\ runs = <<>>

\* no result has been recorded
IdleResults ==
    /\ results = NoDict

\* HITS has not run
IdleHits ==
    /\ hub = [nan |-> FALSE, v |-> <<>>]
    /\ hubs = [nan |-> FALSE, v |-> <<>>]

\* nothing has been printed
IdleTop ==
    /\ top5 = <<>>
    /\ shown = <<>>

\* run_query is not being called
IdleQuery ==
    /\ node_embeddings = <<>>
    /\ sims = NoDict
    /\ p = [keys |-> <<>>, num |-> <<>>, den |-> 1]
    /\ qpc = "IDLE"

\* the server has taken no request
IdleCache ==
    /\ apiCache = NoDict
    /\ searches = <<>>
    /\ requests = <<>>
    /\ good = NoDict

\* no POST request has arrived
IdleRoutes ==
    /\ handled = <<>>

\* no hangout search has collected a place
IdleRank ==
    /\ venues = <<>>
    /\ hangouts = <<>>

\* no query is being parsed
IdleCriteria ==
    /\ parseText = [kind |-> "none"]
    /\ criteria = <<>>
    /\ searchTerms = <<>>
    /\ missingCriteria = <<>>
    /\ cpc = "IDLE"

\* the page is not open
IdleClient ==
    /\ clock = 0
    /\ latestRequestRef = 0
    /\ fetches = <<>>
    /\ react = <<>>

\* nothing but a solver call is going on
IdleRest ==
    /\ IdleEdges
    /\ IdleRuns
    /\ IdleResults
    /\ IdleHits
    /\ IdleTop
    /\ IdleQuery
    /\ IdleCache
    /\ IdleRoutes
    /\ IdleRank
    /\ IdleCriteria
    /\ IdleClient

\* ------------------------------------------------------------ arithmetic
Min(a, b) == IF a < b THEN a ELSE b
Max(a, b) == IF a > b THEN a ELSE b
Abs(a) == IF a < 0 THEN 0 - a ELSE a

RECURSIVE SumTo(_, _)
\* sum of f[1] .. f[n]
SumTo(f, n) == IF n <= 0 THEN 0 ELSE f[n] + SumTo(f, n - 1)

RECURSIVE SqrtSearch(_, _, _)
\* the largest r in lo..hi with r * r <= s
SqrtSearch(s, lo, hi) ==
    IF lo >= hi THEN lo
    ELSE CHOOSE r \in { IF mid * mid <= s THEN SqrtSearch(s, mid, hi)
                        ELSE SqrtSearch(s, lo, mid - 1) :
                        mid \in {(lo + hi + 1) \div 2} } : TRUE

\* np.sqrt on a non-negative fixed-point square, rounded down
ISqrt(s) == CHOOSE r \in { SqrtSearch(sv, 0, Min(sv, 46340)) : sv \in {s} } : TRUE

\* ----------------------------------------------------------------- graph
Idx(n) == 1..n

\* every directed graph on the nodes 1..n (insertion order), no self loops,
\* with at most MaxEdges edges, each with a weight in ws
GraphsWeighted(ws) ==
    UNION { UNION { { [n |-> n, E |-> E, w |-> w] : w \in [E -> ws] } :
              E \in { S \in SUBSET { e \in Idx(n) \X Idx(n) : e[1] # e[2] } :
                      Cardinality(S) <= MaxEdges } } : n \in 0..MaxN }

\* the graphs the HITS solvers are run on: they read no weight
\* (weight=None), so one weight stands for all
Graphs == GraphsWeighted({1})

\* nx.to_numpy_array(G, nodelist=nodes, weight=None): 1 where an edge is
Adjacency(g) ==
    [i \in Idx(g.n) |-> [j \in Idx(g.n) |->
        IF <<i, j>> \in g.E THEN 1 ELSE 0]]

\* A.T @ A
AuthMatrix(g) ==
    LET A == Adjacency(g)
    IN  [i \in Idx(g.n) |-> [j \in Idx(g.n) |->
            SumTo([h \in Idx(g.n) |-> A[h][i] * A[h][j]], g.n)]]

\* ---------------------------------------------------------------- vectors
Vec(f) == [nan |-> FALSE, v |-> f]
NaNVec(n) == [nan |-> n > 0, v |-> [i \in Idx(n) |-> 0]]
NoVec == [nan |-> FALSE, v |-> <<>>]

\* mutant of Uniform: np.zeros(n) / n
UniformZeros(n) == Vec([i \in Idx(n) |-> 0 \div n])

\* np.ones(n) / n
Uniform(n) == Vec([i \in Idx(n) |-> SCALE \div n])

\* m @ x for a fixed-point matrix m
MatVec(m, y, n) ==
    IF y.nan THEN NaNVec(n)
    ELSE Vec([i \in Idx(n) |->
             SumTo([j \in Idx(n) |-> m[i][j] * y.v[j]], n) \div SCALE])

\* np.linalg.norm(y): the 2-norm
Norm2(y, n) == ISqrt(SumTo([i \in Idx(n) |-> y.v[i] * y.v[i]], n))

\* y /= np.linalg.norm(y): a zero norm turns every entry into 0/0 = NaN,
\* with a warning and no exception
Normalize(y, n) ==
    IF y.nan THEN NaNVec(n)
    ELSE LET nr == Norm2(y, n)
         IN  IF nr = 0 THEN NaNVec(n)
             ELSE Vec([i \in Idx(n) |-> (y.v[i] * SCALE) \div nr])

\* np.linalg.norm(a - b, 1)
L1Dist(a, b, n) == SumTo([i \in Idx(n) |-> Abs(a.v[i] - b.v[i])], n)

\* np.linalg.norm(x_new - x, 1) < tol: a comparison with NaN is False
TestPasses(a, b, n, t) ==
    /\ ~a.nan
    /\ ~b.nan
    /\ L1Dist(a, b, n) < t

\* ------------------------------------------------------- randomised_hits
\* mutant of MixedMatrix: the teleport term is left out
MixedMatrixNoTeleport(ata, e, n) ==
    [i \in Idx(n) |-> [j \in Idx(n) |-> ((100 - e) * ata[i][j] * SCALE) \div 100]]

\* (1 - eps) * AtA + (eps / n) * np.ones_like(AtA), eps in percent, n > 0
MixedMatrix(ata, e, n) ==
    [i \in Idx(n) |-> [j \in Idx(n) |->
        ((100 - e) * ata[i][j] * SCALE) \div 100 + (e * SCALE) \div (100 * n)]]

\* --------------------------------------------------------- subspace_hits
\* M = A.T @ A as a fixed-point matrix
ScaledMatrix(ata, n) == [i \in Idx(n) |-> [j \in Idx(n) |-> ata[i][j] * SCALE]]

Dot(u, w, n) == SumTo([i \in Idx(n) |-> u[i] * w[i]], n)

\* Directions an eigenvector is looked for in: entries -1, 0, 1, first
\* non-zero entry 1 (v and -v span the same line).
CandVecs(n) ==
    { v \in [Idx(n) -> {-1, 0, 1}] :
        \E i \in Idx(n) : v[i] = 1 /\ \A j \in 1..(i - 1) : v[j] = 0 }

\* the eigenpairs of the integer matrix m among the candidate directions
EigPairs(m, n) ==
    { ep \in { [val |-> SumTo([j \in Idx(n) |-> m[CHOOSE i \in Idx(n) : v[i] = 1][j] * v[j]], n),
               vec |-> v] : v \in CandVecs(n) } :
        \A i \in Idx(n) :
            SumTo([j \in Idx(n) |-> m[i][j] * ep.vec[j]], n) = ep.val * ep.vec[i] }

RECURSIVE ExtendBasis(_, _, _)
\* every way to complete `sofar` to n mutually orthogonal eigenvectors with
\* ascending eigenvalues
ExtendBasis(pairs, sofar, n) ==
    IF Len(sofar) = n THEN {sofar}
    ELSE UNION { ExtendBasis(pairs, Append(sofar, ep), n) :
                 ep \in { q \in pairs :
                         /\ Len(sofar) > 0 => sofar[Len(sofar)].val <= q.val
                         /\ \A h \in 1..Len(sofar) :
                                Dot(sofar[h].vec, q.vec, n) = 0 } }

IsDiagonal(m, n) == \A i, j \in Idx(n) : i # j => m[i][j] = 0

\* the coordinate axes among the eigenpairs
AxisPairs(pairs, n) ==
    { ep \in pairs : \E i \in Idx(n) : \A j \in Idx(n) : ep.vec[j] = (IF j = i THEN 1 ELSE 0) }

\* vals, vecs = np.linalg.eigh(M): eigenvalues ascending, columns an
\* orthonormal eigenbasis (column h is vec / |vec|).  Which basis of a
\* repeated eigenvalue's eigenspace comes back is LAPACK's choice, so every
\* basis is a possible result; for a diagonal M the reduction LAPACK starts
\* with changes nothing and the eigenvectors are coordinate axes, in an
\* order among equal eigenvalues that is again LAPACK's choice.
Eigh(m, n) ==
    UNION { ExtendBasis(pairs, <<>>, n) :
            pairs \in { IF IsDiagonal(m, n) THEN AxisPairs(EigPairs(m, n), n)
                        ELSE EigPairs(m, n) } }

Reverse(s) == [i \in 1..Len(s) |-> s[Len(s) + 1 - i]]

\* s[:c] of Python: a negative c counts from the end
PySliceTo(s, c) ==
    SubSeq(s, 1, IF c >= 0 THEN Min(c, Len(s)) ELSE Max(Len(s) + c, 0))

\* mutant of DominantBasis: the slice stops one column early
DominantBasisShort(basis, c) ==
    LET idx == PySliceTo(Reverse([h \in 1..Len(basis) |-> h]), c - 1)
    IN  [h \in 1..Len(idx) |-> basis[idx[h]].vec]

\* idx = np.argsort(vals)[::-1][:k_sub]; Q = vecs[:, idx].  vals is
\* ascending, so argsort is the identity.
DominantBasis(basis, c) ==
    LET idx == PySliceTo(Reverse([h \in 1..Len(basis) |-> h]), c)
    IN  [h \in 1..Len(idx) |-> basis[idx[h]].vec]

RECURSIVE Lcm1To(_)
\* a common multiple of the squared lengths 1..n of the candidate directions
Lcm1To(n) == IF n <= 1 THEN 1 ELSE n * Lcm1To(n - 1)

\* Q @ (Q.T @ y): the sum over the columns q / |q| of (q . y) q / (q . q),
\* rounded once
Project(q, y, n) ==
    IF y.nan THEN NaNVec(n)
    ELSE LET L == Lcm1To(n)
         IN  Vec([i \in Idx(n) |->
                 SumTo([h \in 1..Len(q) |->
                          (L \div Dot(q[h], q[h], n)) * Dot(q[h], y.v, n) * q[h][i]],
                       Len(q)) \div L])

\* ------------------------------------------------------------------ runs
Solvers == {"randomised_hits", "subspace_hits"}
EpsSet == {0, DefaultEps, 100, 200}
TolSet == {0, 1, TolCoarse}
Terminal == {"CONVERGED", "MAX_ITER_REACHED"}

NoReturn == [returned |-> FALSE, auth |-> NoVec, iters |-> 0]

\* ------------------------------------------------------------- idle parts
\* no solver is being called
IdleCall ==
    /\ solver = "none"
    /\ eps = DefaultEps
    /\ alpha = DefaultAlpha
    /\ k_sub = 1
    /\ max_iter = 1
    /\ tol = 1
    /\ pc = "IDLE"
    /\ M = <<>>
    /\ Q = <<>>
    /\ x = NoVec
    /\ x_new = NoVec
    /\ k = -1
    /\ steps = 0
    /\ broke = FALSE
    /\ hist = <<>>
    /\ ret = NoReturn
    /\ err = "none"
    /\ calls = <<>>

\* no solver is being called and there is no graph
IdleSolver ==
    /\ G = [n |-> 0, E |-> {}, w |-> <<>>]
    /\ lapack = <<>>
    /\ IdleCall

\* everything but edgeVars
exceptEdges == <<solverVars, runVars, resultVars, hitsVars, topVars, queryVars, cacheVars, routeVars, rankVars, criteriaVars, clientVars>>

IdleExceptEdges ==
    /\ TRUE
    /\ IdleRuns
    /\ IdleResults
    /\ IdleHits
    /\ IdleTop
    /\ IdleQuery
    /\ IdleCache
    /\ IdleRoutes
    /\ IdleRank
    /\ IdleCriteria
    /\ IdleClient

\* everything but runVars
exceptRuns == <<solverVars, edgeVars, resultVars, hitsVars, topVars, queryVars, cacheVars, routeVars, rankVars, criteriaVars, clientVars>>

IdleExceptRuns ==
    /\ TRUE
    /\ IdleEdges
    /\ IdleResults
    /\ IdleHits
    /\ IdleTop
    /\ IdleQuery
    /\ IdleCache
    /\ IdleRoutes
    /\ IdleRank
    /\ IdleCriteria
    /\ IdleClient

\* everything but resultVars
exceptResults == <<solverVars, edgeVars, runVars, hitsVars, topVars, queryVars, cacheVars, routeVars, rankVars, criteriaVars, clientVars>>

IdleExceptResults ==
    /\ TRUE
    /\ IdleEdges
    /\ IdleRuns
    /\ IdleHits
    /\ IdleTop
    /\ IdleQuery
    /\ IdleCache
    /\ IdleRoutes
    /\ IdleRank
    /\ IdleCriteria
    /\ IdleClient

\* everything but hitsVars
exceptHits == <<solverVars, edgeVars, runVars, resultVars, topVars, queryVars, cacheVars, routeVars, rankVars, criteriaVars, clientVars>>

IdleExceptHits ==
    /\ TRUE
    /\ IdleEdges
    /\ IdleRuns
    /\ IdleResults
    /\ IdleTop
    /\ IdleQuery
    /\ IdleCache
    /\ IdleRoutes
    /\ IdleRank
    /\ IdleCriteria
    /\ IdleClient

\* everything but topVars
exceptTop == <<solverVars, edgeVars, runVars, resultVars, hitsVars, queryVars, cacheVars, routeVars, rankVars, criteriaVars, clientVars>>

IdleExceptTop ==
    /\ TRUE
    /\ IdleEdges
    /\ IdleRuns
    /\ IdleResults
    /\ IdleHits
    /\ IdleQuery
    /\ IdleCache
    /\ IdleRoutes
    /\ IdleRank
    /\ IdleCriteria
    /\ IdleClient

\* everything but queryVars
exceptQuery == <<solverVars, edgeVars, runVars, resultVars, hitsVars, topVars, cacheVars, routeVars, rankVars, criteriaVars, clientVars>>

IdleExceptQuery ==
    /\ TRUE
    /\ IdleEdges
    /\ IdleRuns
    /\ IdleResults
    /\ IdleHits
    /\ IdleTop
    /\ IdleCache
    /\ IdleRoutes
    /\ IdleRank
    /\ IdleCriteria
    /\ IdleClient

\* everything but cacheVars
exceptCache == <<solverVars, edgeVars, runVars, resultVars, hitsVars, topVars, queryVars, routeVars, rankVars, criteriaVars, clientVars>>

IdleExceptCache ==
    /\ TRUE
    /\ IdleEdges
    /\ IdleRuns
    /\ IdleResults
    /\ IdleHits
    /\ IdleTop
    /\ IdleQuery
    /\ IdleRoutes
    /\ IdleRank
    /\ IdleCriteria
    /\ IdleClient

\* everything but routeVars
exceptRoutes == <<solverVars, edgeVars, runVars, resultVars, hitsVars, topVars, queryVars, cacheVars, rankVars, criteriaVars, clientVars>>

IdleExceptRoutes ==
    /\ TRUE
    /\ IdleEdges
    /\ IdleRuns
    /\ IdleResults
    /\ IdleHits
    /\ IdleTop
    /\ IdleQuery
    /\ IdleCache
    /\ IdleRank
    /\ IdleCriteria
    /\ IdleClient

\* everything but rankVars
exceptRank == <<solverVars, edgeVars, runVars, resultVars, hitsVars, topVars, queryVars, cacheVars, routeVars, criteriaVars, clientVars>>

IdleExceptRank ==
    /\ TRUE
    /\ IdleEdges
    /\ IdleRuns
    /\ IdleResults
    /\ IdleHits
    /\ IdleTop
    /\ IdleQuery
    /\ IdleCache
    /\ IdleRoutes
    /\ IdleCriteria
    /\ IdleClient

\* everything but criteriaVars
exceptCriteria == <<solverVars, edgeVars, runVars, resultVars, hitsVars, topVars, queryVars, cacheVars, routeVars, rankVars, clientVars>>

IdleExceptCriteria ==
    /\ TRUE
    /\ IdleEdges
    /\ IdleRuns
    /\ IdleResults
    /\ IdleHits
    /\ IdleTop
    /\ IdleQuery
    /\ IdleCache
    /\ IdleRoutes
    /\ IdleRank
    /\ IdleClient

\* everything but clientVars
exceptClient == <<solverVars, edgeVars, runVars, resultVars, hitsVars, topVars, queryVars, cacheVars, routeVars, rankVars, criteriaVars>>

IdleExceptClient ==
    /\ TRUE
    /\ IdleEdges
    /\ IdleRuns
    /\ IdleResults
    /\ IdleHits
    /\ IdleTop
    /\ IdleQuery
    /\ IdleCache
    /\ IdleRoutes
    /\ IdleRank
    /\ IdleCriteria

\* nothing goes on outside resultVars and topVars
IdleExceptTopResults ==
    /\ IdleEdges
    /\ IdleRuns
    /\ IdleHits
    /\ IdleQuery
    /\ IdleCache
    /\ IdleRoutes
    /\ IdleRank
    /\ IdleCriteria
    /\ IdleClient

\* ------------------------------------------------------------- the calls
\* One call of a solver: the graph and the arguments are the inputs.
Init ==
    /\ G \in Graphs
    /\ solver \in Solvers
    /\ eps \in (IF solver = "randomised_hits" THEN EpsSet ELSE {DefaultEps})
    /\ alpha = DefaultAlpha
    /\ k_sub \in (IF solver = "subspace_hits" THEN (-1)..(G.n + 1) ELSE {1})
    /\ max_iter \in 0..MaxIter
    /\ tol \in TolSet
    /\ lapack \in (IF solver = "subspace_hits" THEN Eigh(AuthMatrix(G), G.n)
                   ELSE {<<>>})
    /\ calls = <<>>
    /\ IdleRest
    /\ pc = "INITIALIZED"
    /\ M = <<>>
    /\ Q = <<>>
    /\ x = NoVec
    /\ x_new = NoVec
    /\ k = -1
    /\ steps = 0
    /\ broke = FALSE
    /\ hist = <<>>
    /\ ret = NoReturn
    /\ err = "none"

\* An exception leaves the function: nothing is returned.
Raise(e) ==
    /\ pc' = "ERROR"
    /\ err' = e
    /\ UNCHANGED <<k, steps, broke, ret, x_new>>

\* `for k in range(max_iter)` is reached with x as the start vector.  With
\* max_iter <= 0 the body never runs, k stays unbound and `return auth, k + 1`
\* raises UnboundLocalError.
EnterLoop ==
    IF max_iter <= 0
    THEN Raise("UnboundLocalError")
    ELSE /\ pc' = "ITERATING"
         /\ k' = 0
         /\ UNCHANGED <<steps, broke, ret, err, x_new>>

\* mutant of RandomisedSetup: x is bound only when nothing is left in it
RandomisedSetupStale ==
    /\ pc = "INITIALIZED"
    /\ solver = "randomised_hits"
    /\ IF G.n = 0
       THEN /\ Raise("ZeroDivisionError")
            /\ UNCHANGED <<M, Q, x, hist>>
       ELSE /\ \E ata \in {AuthMatrix(G)} : M' = MixedMatrix(ata, eps, G.n)
            /\ \E x0 \in {IF x = NoVec THEN Uniform(G.n) ELSE x} :
                  /\ x' = x0
                  /\ hist' = <<x0>>
            /\ UNCHANGED Q
            /\ EnterLoop
    /\ UNCHANGED params
    /\ UNCHANGED aside

\* randomised_hits up to its loop: the matrices and the start vector.
\* eps / n divides two Python numbers: ZeroDivisionError when n = 0.
RandomisedSetup ==
    /\ pc = "INITIALIZED"
    /\ solver = "randomised_hits"
    /\ IF G.n = 0
       THEN /\ Raise("ZeroDivisionError")
            /\ UNCHANGED <<M, Q, x, hist>>
       ELSE /\ \E ata \in {AuthMatrix(G)} : M' = MixedMatrix(ata, eps, G.n)
            /\ x' = Uniform(G.n)
            /\ hist' = <<Uniform(G.n)>>
            /\ UNCHANGED Q
            /\ EnterLoop
    /\ UNCHANGED params
    /\ UNCHANGED aside

\* subspace_hits up to its loop: M, the eigenbasis Q and the projected,
\* normalised start vector.  Nothing here raises for n = 0: the arrays are
\* empty and np.ones(0) / 0 divides no entry.
SubspaceSetup ==
    /\ pc = "INITIALIZED"
    /\ solver = "subspace_hits"
    /\ \E ata \in {AuthMatrix(G)} :
       \E basis \in {lapack} :
       \E q \in {DominantBasis(basis, k_sub)} :
       \E x0 \in {Normalize(Project(q, Uniform(G.n), G.n), G.n)} :
          /\ M' = ScaledMatrix(ata, G.n)
          /\ Q' = q
          /\ x' = x0
          /\ hist' = <<x0>>
    /\ EnterLoop
    /\ UNCHANGED params
    /\ UNCHANGED aside

\* mutant of Return: the loop index itself is returned
ReturnIndex(xv, kv) == [returned |-> TRUE, auth |-> xv, iters |-> kv]

\* the return statement: auth is built from x, the count from the loop index
Return(xv, kv) == [returned |-> TRUE, auth |-> xv, iters |-> kv + 1]

\* mutant of LoopBody: the loop runs one pass past range(max_iter)
LoopBodyPastCap(xn) ==
    /\ x_new' = xn
    /\ steps' = steps + 1
    /\ hist' = Append(hist, xn)
    /\ IF TestPasses(xn, x, G.n, tol)
       THEN /\ broke' = TRUE
            /\ pc' = "CONVERGED"
            /\ ret' = Return(x, k)
            /\ UNCHANGED <<x, k>>
       ELSE /\ x' = xn
            /\ UNCHANGED broke
            /\ IF k + 1 <= max_iter
               THEN /\ k' = k + 1
                    /\ UNCHANGED <<pc, ret>>
               ELSE /\ pc' = "MAX_ITER_REACHED"
                    /\ ret' = Return(xn, k)
                    /\ UNCHANGED k
    /\ UNCHANGED <<M, Q, err>>
    /\ UNCHANGED params
    /\ UNCHANGED aside

\* One pass of the loop body with xn the value given to x_new, and what
\* follows it when the loop ends there: the return.
LoopBody(xn) ==
    /\ x_new' = xn
    /\ steps' = steps + 1
    /\ hist' = Append(hist, xn)
    /\ IF TestPasses(xn, x, G.n, tol)
       THEN \* break
            /\ broke' = TRUE
            /\ pc' = "CONVERGED"
            /\ ret' = Return(x, k)
            /\ UNCHANGED <<x, k>>
       ELSE /\ x' = xn
            /\ UNCHANGED broke
            /\ IF k + 1 < max_iter
               THEN /\ k' = k + 1
                    /\ UNCHANGED <<pc, ret>>
               ELSE \* range(max_iter) is exhausted
                    /\ pc' = "MAX_ITER_REACHED"
                    /\ ret' = Return(xn, k)
                    /\ UNCHANGED k
    /\ UNCHANGED <<M, Q, err>>
    /\ UNCHANGED params
    /\ UNCHANGED aside

RandomisedIter ==
    /\ pc = "ITERATING"
    /\ solver = "randomised_hits"
    /\ \E xn \in {Normalize(MatVec(M, x, G.n), G.n)} : LoopBody(xn)

SubspaceIter ==
    /\ pc = "ITERATING"
    /\ solver = "subspace_hits"
    /\ \E y \in {MatVec(M, x, G.n)} :
       \E xn \in {Normalize(Project(Q, y, G.n), G.n)} : LoopBody(xn)

Next ==
    \/ RandomisedSetup
    \/ SubspaceSetup
    \/ RandomisedIter
    \/ SubspaceIter

Spec == Init /\ [][Next]_vars

\* --------------------------------------------------------------- PageRank
\* The program computes PageRank by the one call
\* nx.pagerank(G_sg, alpha=0.85, weight="weight"); the update itself is the
\* library's.  It is modelled here as the specification states it (4.2 and
\* 4.3), in exact arithmetic: a vector is [nan, v, den], entry i standing
\* for the fraction v[i] / den.
WeightSet == {1, 2}
AlphaSet == {1, DefaultAlpha, AlphaUnit - 1}

RECURSIVE Gcd(_, _)
Gcd(a, b) == IF b = 0 THEN a ELSE Gcd(b, a % b)

Lcm(a, b) == (a \div Gcd(a, b)) * b

RECURSIVE LcmTo(_, _)
\* the least common multiple of f[1] .. f[n]
LcmTo(f, n) == IF n <= 0 THEN 1 ELSE Lcm(f[n], LcmTo(f, n - 1))

RECURSIVE GcdTo(_, _)
\* the greatest common divisor of f[1] .. f[n]
GcdTo(f, n) == IF n <= 0 THEN 0 ELSE Gcd(f[n], GcdTo(f, n - 1))

Frac(f, d) == [nan |-> FALSE, v |-> f, den |-> d]

\* the same fractions in lowest terms
Reduced(y, n) ==
    LET g == Gcd(y.den, GcdTo(y.v, n))
    IN  Frac([i \in Idx(n) |-> y.v[i] \div g], y.den \div g)

\* adjacencyMatrix(weighted = true): entry [i][j] is the weight of i -> j
WeightedAdjacency(g) ==
    [i \in Idx(g.n) |-> [j \in Idx(g.n) |->
        IF <<i, j>> \in g.E THEN g.w[<<i, j>>] ELSE 0]]

\* the sum of node i's outgoing weights; 0 for a dangling node
OutWeight(g, i) == SumTo(WeightedAdjacency(g)[i], g.n)

\* a common multiple of the non-zero row sums
RowLcm(g) ==
    LcmTo([i \in Idx(g.n) |-> IF OutWeight(g, i) = 0 THEN 1 ELSE OutWeight(g, i)], g.n)

\* the factor one update multiplies the denominator by
StepFactor(g) == RowLcm(g) * g.n * AlphaUnit

\* mutant of PageRankUpdate: the score of a dangling node is not handed on
PageRankUpdateDropDangling(g, a, y) ==
    LET A == WeightedAdjacency(g)
        L == RowLcm(g)
    IN  Frac([j \in Idx(g.n) |->
                a * SumTo([i \in Idx(g.n) |->
                             IF OutWeight(g, i) = 0 THEN 0
                             ELSE y.v[i] * A[i][j] * (L \div OutWeight(g, i)) * g.n],
                          g.n)
                + (AlphaUnit - a) * y.den * L],
             y.den * StepFactor(g))

\* x' = alpha * P^T x + (1 - alpha) / n * 1, where row i of P is node i's
\* outgoing weights divided by their sum, and the uniform row 1/n for a
\* dangling node.  Entry j of the result, over the denominator
\* y.den * StepFactor(g).
PageRankUpdate(g, a, y) ==
    LET A == WeightedAdjacency(g)
        L == RowLcm(g)
    IN  Frac([j \in Idx(g.n) |->
                a * SumTo([i \in Idx(g.n) |->
                             IF OutWeight(g, i) = 0 THEN y.v[i] * L
                             ELSE y.v[i] * A[i][j] * (L \div OutWeight(g, i)) * g.n],
                          g.n)
                + (AlphaUnit - a) * y.den * L],
             y.den * StepFactor(g))

\* || xn - y ||_1 < tol, xn being PageRankUpdate(g, a, y) and so over the
\* denominator y.den * f
FracTestPasses(xn, y, f, n, t) ==
    SumTo([i \in Idx(n) |-> Abs(xn.v[i] - y.v[i] * f)], n) * SCALE < t * xn.den

\* the start vectors: the default uniform one, and all the score on one node
StartVectors(n) ==
    {Frac([i \in Idx(n) |-> 1], n)}
        \cup { Frac([i \in Idx(n) |-> IF i = h THEN 1 ELSE 0], 1) : h \in Idx(n) }

\* one PageRank call on a non-empty graph with arguments in range
InitPR ==
    /\ G \in { g \in GraphsWeighted(WeightSet) : g.n >= 1 }
    /\ solver = "pagerank"
    /\ eps = DefaultEps
    /\ alpha \in AlphaSet
    /\ k_sub = 1
    /\ max_iter \in 1..MaxIter
    /\ tol \in {1, TolCoarse}
    /\ lapack = <<>>
    /\ calls = <<>>
    /\ IdleRest
    /\ pc = "INITIALIZED"
    /\ M = <<>>
    /\ Q = <<>>
    /\ x = NoVec
    /\ x_new = NoVec
    /\ k = -1
    /\ steps = 0
    /\ broke = FALSE
    /\ hist = <<>>
    /\ ret = NoReturn
    /\ err = "none"

\* the engine takes its initial vector and enters the loop
PageRankSetup ==
    /\ pc = "INITIALIZED"
    /\ solver = "pagerank"
    /\ \E x0 \in StartVectors(G.n) :
          /\ x' = x0
          /\ hist' = <<x0>>
    /\ pc' = "ITERATING"
    /\ k' = 0
    /\ UNCHANGED <<M, Q, x_new, steps, broke, ret, err>>
    /\ UNCHANGED params
    /\ UNCHANGED aside

\* one update step of the engine: x <- f(x), then the L1 test and the cap.
\* The step is taken while the exact denominator stays within PRDenCap.
PageRankIter ==
    /\ pc = "ITERATING"
    /\ solver = "pagerank"
    /\ x.den * StepFactor(G) <= PRDenCap
    /\ \E xn \in {PageRankUpdate(G, alpha, x)} :
       \E xr \in {Reduced(xn, G.n)} :
          /\ x_new' = xr
          /\ x' = xr
          /\ hist' = Append(hist, xr)
          /\ steps' = steps + 1
          /\ IF FracTestPasses(xn, x, StepFactor(G), G.n, tol)
             THEN /\ broke' = TRUE
                  /\ pc' = "CONVERGED"
                  /\ ret' = Return(xr, k)
                  /\ UNCHANGED k
             ELSE /\ UNCHANGED broke
                  /\ IF k + 1 < max_iter
                     THEN /\ k' = k + 1
                          /\ UNCHANGED <<pc, ret>>
                     ELSE /\ pc' = "MAX_ITER_REACHED"
                          /\ ret' = Return(xr, k)
                          /\ UNCHANGED k
    /\ UNCHANGED <<M, Q, err>>
    /\ UNCHANGED params
    /\ UNCHANGED aside

\* the value of iters the script records for PageRank: not a count
ItersNotCounted == [text |-> "<=200"]

\* results["PageRank"] = dict(scores=pr, runtime=..., iters="<=200"): the call
\* hands back the scores and nothing else, and the entry is built from them.
\* The runtime is a clock reading and is left out.
RecordPageRank ==
    /\ solver = "pagerank"
    /\ pc \in Terminal
    /\ ~DictHas(results, "PageRank")
    /\ results' = DictSet(results, "PageRank",
                          [scores |-> ret.auth, iters |-> ItersNotCounted])
    /\ UNCHANGED exceptResults

\* ------------------------------------------------------------------- HITS
\* The program computes HITS by the one call nx.hits(G_sg, normalized=True),
\* after the PageRank call and on the same graph; the iteration is the
\* library's.  It is modelled as the specification states it (4.2 and 4.4),
\* in the fixed-point arithmetic of the vectors above.

\* A y for the adjacency matrix A
AdjVec(A, y, n) ==
    Vec([i \in Idx(n) |-> SumTo([j \in Idx(n) |-> A[i][j] * y.v[j]], n)])

\* mutant of AdjTVec: the last row of A is left out of the sums
AdjTVecShort(A, y, n) ==
    Vec([j \in Idx(n) |-> SumTo([i \in Idx(n) |-> A[i][j] * y.v[i]], n - 1)])

\* A^T y
AdjTVec(A, y, n) ==
    Vec([j \in Idx(n) |-> SumTo([i \in Idx(n) |-> A[i][j] * y.v[i]], n)])

\* the engine's L2 renormalisation: a zero vector falls back to the uniform
\* one
EngineNormalize(y, n) ==
    IF Norm2(y, n) = 0 THEN Uniform(n) ELSE Normalize(y, n)

\* for reporting, the vector rescaled to sum to 1
SumRescale(y, n) ==
    LET s == SumTo(y.v, n)
    IN  IF s = 0 THEN Uniform(n)
        ELSE Vec([i \in Idx(n) |-> (y.v[i] * SCALE) \div s])

\* the script goes on from the PageRank entry to the HITS call on the same
\* graph
StartHits ==
    /\ solver = "pagerank"
    /\ DictHas(results, "PageRank")
    /\ solver' = "hits"
    /\ pc' = "INITIALIZED"
    /\ M' = <<>>
    /\ Q' = <<>>
    /\ x' = NoVec
    /\ x_new' = NoVec
    /\ k' = -1
    /\ steps' = 0
    /\ broke' = FALSE
    /\ hist' = <<>>
    /\ ret' = NoReturn
    /\ err' = "none"
    /\ UNCHANGED <<G, eps, alpha, k_sub, max_iter, tol>>
    /\ UNCHANGED aside

\* both vectors start uniform
HitsSetup ==
    /\ pc = "INITIALIZED"
    /\ solver = "hits"
    /\ x' = Uniform(G.n)
    /\ hub' = Uniform(G.n)
    /\ hist' = <<Uniform(G.n)>>
    /\ pc' = "ITERATING"
    /\ k' = 0
    /\ UNCHANGED <<M, Q, x_new, steps, broke, ret, err, hubs>>
    /\ UNCHANGED params
    /\ UNCHANGED asideExceptHits

\* one step: a <- A^T h, renormalised; h <- A a, renormalised; the run ends
\* when both vectors pass the L1 test or at the cap, and the vectors are
\* reported rescaled to sum to 1
HitsIter ==
    /\ pc = "ITERATING"
    /\ solver = "hits"
    /\ \E A \in {WeightedAdjacency(G)} :
       \E a1 \in {EngineNormalize(AdjTVec(A, hub, G.n), G.n)} :
       \E h1 \in {EngineNormalize(AdjVec(A, a1, G.n), G.n)} :
          /\ x' = a1
          /\ x_new' = a1
          /\ hub' = h1
          /\ hist' = Append(hist, a1)
          /\ steps' = steps + 1
          /\ IF TestPasses(a1, x, G.n, tol) /\ TestPasses(h1, hub, G.n, tol)
             THEN /\ broke' = TRUE
                  /\ pc' = "CONVERGED"
                  /\ ret' = Return(SumRescale(a1, G.n), k)
                  /\ hubs' = SumRescale(h1, G.n)
                  /\ UNCHANGED k
             ELSE /\ UNCHANGED broke
                  /\ IF k + 1 < max_iter
                     THEN /\ k' = k + 1
                          /\ UNCHANGED <<pc, ret, hubs>>
                     ELSE /\ pc' = "MAX_ITER_REACHED"
                          /\ ret' = Return(SumRescale(a1, G.n), k)
                          /\ hubs' = SumRescale(h1, G.n)
                          /\ UNCHANGED k
    /\ UNCHANGED <<M, Q, err>>
    /\ UNCHANGED params
    /\ UNCHANGED asideExceptHits

\* results["HITS"] = dict(scores=auth_hits, runtime=..., iters="<=200"): the
\* authority vector is kept, the hub vector is dropped
RecordHits ==
    /\ solver = "hits"
    /\ pc \in Terminal
    /\ ~DictHas(results, "HITS")
    /\ results' = DictSet(results, "HITS",
                          [scores |-> ret.auth, iters |-> ItersNotCounted])
    /\ UNCHANGED exceptResults

NextPR ==
    \/ PageRankSetup
    \/ PageRankIter
    \/ RecordPageRank
    \/ StartHits
    \/ HitsSetup
    \/ HitsIter
    \/ RecordHits

SpecPR == InitPR /\ [][NextPR]_vars

\* ------------------------------------------------------ calls in sequence
\* The comparison script calls the solvers one after the other on the same
\* graph object: randomised_hits(G_sg, eps=0.15), then
\* subspace_hits(G_sg, k_sub=1).  Here: up to MaxCalls calls, each with
\* arguments in range.
CallEnded == pc \in Terminal \/ pc = "ERROR"

SeqConfigs(n) ==
    { [solver |-> "randomised_hits", eps |-> DefaultEps, k_sub |-> 1,
       max_iter |-> mi, tol |-> t] : mi \in {1, MaxIter}, t \in {1, TolCoarse} }
    \cup
    { [solver |-> "subspace_hits", eps |-> DefaultEps, k_sub |-> ks,
       max_iter |-> mi, tol |-> t] :
         ks \in {1, Max(n, 1)}, mi \in {1, MaxIter}, t \in {1, TolCoarse} }

\* what is known of a call once it has ended
CallRecord ==
    [solver |-> solver, eps |-> eps, k_sub |-> k_sub, max_iter |-> max_iter,
     tol |-> tol, hist |-> hist, ret |-> ret, err |-> err]

InitSeq ==
    /\ G \in { g \in Graphs : Eigh(AuthMatrix(g), g.n) # {} }
    /\ \E c \in SeqConfigs(G.n) :
          /\ solver = c.solver
          /\ eps = c.eps
          /\ k_sub = c.k_sub
          /\ max_iter = c.max_iter
          /\ tol = c.tol
    /\ alpha = DefaultAlpha
    /\ lapack \in Eigh(AuthMatrix(G), G.n)
    /\ calls = <<>>
    /\ IdleRest
    /\ pc = "INITIALIZED"
    /\ M = <<>>
    /\ Q = <<>>
    /\ x = NoVec
    /\ x_new = NoVec
    /\ k = -1
    /\ steps = 0
    /\ broke = FALSE
    /\ hist = <<>>
    /\ ret = NoReturn
    /\ err = "none"

\* the graph with every edge turned round
ReverseGraph(g) ==
    [n |-> g.n, E |-> { <<e[2], e[1]>> : e \in g.E },
     w |-> [e \in { <<d[2], d[1]>> : d \in g.E } |-> g.w[<<e[2], e[1]>>]]]

\* The call that has ended is followed by a call on the graph g.  The new
\* call's locals are unbound until its own code binds them: what the ended
\* call left in M, Q, x, x_new and k stays where it is and must not be read.
CallOn(g) ==
    /\ CallEnded
    /\ Len(calls) < MaxCalls - 1
    /\ calls' = Append(calls, CallRecord)
    /\ G' = g
    /\ \E c \in SeqConfigs(g.n) :
          /\ solver' = c.solver
          /\ eps' = c.eps
          /\ k_sub' = c.k_sub
          /\ max_iter' = c.max_iter
          /\ tol' = c.tol
    /\ pc' = "INITIALIZED"
    /\ steps' = 0
    /\ broke' = FALSE
    /\ hist' = <<>>
    /\ ret' = NoReturn
    /\ err' = "none"
    /\ UNCHANGED <<alpha, M, Q, x, x_new, k, lapack>>
    /\ UNCHANGED restVars

\* mutant of NextCall: the next solver is handed the reversed graph
NextCallReversed == CallOn(ReverseGraph(G))

\* the next solver is handed the same graph object
NextCall == CallOn(G)

NextSeq ==
    \/ RandomisedSetup
    \/ SubspaceSetup
    \/ RandomisedIter
    \/ SubspaceIter
    \/ NextCall

SpecSeq == InitSeq /\ [][NextSeq]_vars

\* ---------------------------------------------------------- the edge list
Places == {"A", "B"}

\* mutant of EdgesAdd: a transition is added to the edge of the opposite
\* direction when that one is already there
EdgesAddUndirected(ed, a, b) ==
    LET key == IF DictHas(ed, <<b, a>>) THEN <<b, a>> ELSE <<a, b>>
    IN  DictSet(ed, key, DictGet(ed, key, 0) + 1)

\* edges[(a, b)] = edges.get((a, b), 0) + 1
EdgesAdd(ed, a, b) == DictSet(ed, <<a, b>>, DictGet(ed, <<a, b>>, 0) + 1)

\* every list of Places of length lo .. hi
ListsOf(S, lo, hi) == UNION { [1..len -> S] : len \in lo..hi }

\* The reviews of the users who reviewed more than one attraction, grouped by
\* user and in date order: at most MaxUsers lists of 2 .. MaxVisits places.
InitEdges ==
    /\ visits \in UNION { [1..u -> ListsOf(Places, 2, MaxVisits)] : u \in 0..MaxUsers }
    /\ edges = NoDict
    /\ cursor = <<1, 1>>
    /\ G_sg = NoDict
    /\ IdleSolver
    /\ IdleExceptEdges

\* one pass of the inner loop: the pair (a, b) of zip(seq, seq[1:]) at the
\* cursor is counted
AddTransition ==
    /\ cursor[1] \in 1..Len(visits)
    /\ LET seq == visits[cursor[1]]
           i == cursor[2]
       IN  /\ edges' = EdgesAdd(edges, seq[i], seq[i + 1])
           /\ cursor' = IF i + 1 < Len(seq) THEN <<cursor[1], i + 1>>
                        ELSE <<cursor[1] + 1, 1>>
    /\ UNCHANGED <<visits, G_sg>>
    /\ UNCHANGED exceptEdges

RECURSIVE NodesOf(_, _)
\* the nodes add_weighted_edges_from creates, in the order it meets them:
\* for each key (u, v) in turn u, then v
NodesOf(keys, sofar) ==
    IF keys = <<>> THEN sofar
    ELSE LET u == Head(keys)[1]
             v == Head(keys)[2]
             withU == IF \E h \in 1..Len(sofar) : sofar[h] = u THEN sofar
                      ELSE Append(sofar, u)
             withV == IF \E h \in 1..Len(withU) : withU[h] = v THEN withU
                      ELSE Append(withU, v)
         IN  NodesOf(Tail(keys), withV)

\* G_sg.add_weighted_edges_from([(u, v, w) for (u, v), w in edges.items()])
BuildGraph ==
    /\ cursor = <<Len(visits) + 1, 1>>
    /\ G_sg' = [nodes |-> NodesOf(edges.keys, <<>>), keys |-> edges.keys,
                val |-> edges.val]
    /\ cursor' = <<Len(visits) + 2, 1>>
    /\ UNCHANGED <<visits, edges>>
    /\ UNCHANGED exceptEdges

NextEdges ==
    \/ AddTransition
    \/ BuildGraph

SpecEdges == InitEdges /\ [][NextEdges]_vars

\* ------------------------------------------------------ calls side by side
\* The two solvers as functions of their arguments: what a call holds in its
\* own frame, and what one step of it makes of that frame.  g and basis are
\* what the call reads from outside: the graph, and the result of
\* np.linalg.eigh on the graph's authority matrix.

\* the frame of a call that has not started
RunInit(cfg) ==
    [solver |-> cfg.solver, eps |-> cfg.eps, k_sub |-> cfg.k_sub,
     max_iter |-> cfg.max_iter, tol |-> cfg.tol,
     pc |-> "INITIALIZED", M |-> <<>>, Q |-> <<>>, x |-> NoVec, k |-> -1,
     ret |-> NoReturn, err |-> "none"]

\* `for k in range(max_iter)` is reached
RunEnterLoop(r) ==
    IF r.max_iter <= 0
    THEN [r EXCEPT !.pc = "ERROR", !.err = "UnboundLocalError"]
    ELSE [r EXCEPT !.pc = "ITERATING", !.k = 0]

\* the function up to its loop
RunSetup(g, basis, r) ==
    IF r.solver = "randomised_hits"
    THEN IF g.n = 0
         THEN [r EXCEPT !.pc = "ERROR", !.err = "ZeroDivisionError"]
         ELSE RunEnterLoop([r EXCEPT
                  !.M = MixedMatrix(AuthMatrix(g), r.eps, g.n),
                  !.x = Uniform(g.n)])
    ELSE LET q == DominantBasis(basis, r.k_sub)
         IN  RunEnterLoop([r EXCEPT
                  !.M = ScaledMatrix(AuthMatrix(g), g.n),
                  !.Q = q,
                  !.x = Normalize(Project(q, Uniform(g.n), g.n), g.n)])

\* one pass of the loop body with xn the value given to x_new
RunLoopBody(g, r, xn) ==
    IF TestPasses(xn, r.x, g.n, r.tol)
    THEN [r EXCEPT !.pc = "CONVERGED", !.ret = Return(r.x, r.k)]
    ELSE IF r.k + 1 < r.max_iter
         THEN [r EXCEPT !.x = xn, !.k = r.k + 1]
         ELSE [r EXCEPT !.x = xn, !.pc = "MAX_ITER_REACHED",
                        !.ret = Return(xn, r.k)]

\* the value the loop body gives to x_new
RunNewVector(g, r) ==
    IF r.solver = "randomised_hits"
    THEN Normalize(MatVec(r.M, r.x, g.n), g.n)
    ELSE Normalize(Project(r.Q, MatVec(r.M, r.x, g.n), g.n), g.n)

RunEnded(r) == r.pc \in Terminal \cup {"ERROR"}

\* one step of a call
RunStep(g, basis, r) ==
    IF r.pc = "INITIALIZED" THEN RunSetup(g, basis, r)
    ELSE IF r.pc = "ITERATING"
         THEN CHOOSE s \in {RunLoopBody(g, r, xn) :
                               xn \in {RunNewVector(g, r)}} : TRUE
         ELSE r

RECURSIVE RunAlone(_, _, _)
\* the call run from r to its end with nothing else going on
RunAlone(g, basis, r) ==
    IF RunEnded(r) THEN r ELSE RunAlone(g, basis, RunStep(g, basis, r))

MaxRuns == 2

\* the arguments of the calls that run side by side
ConcConfigs(n) ==
    [solver : {"randomised_hits"}, eps : {DefaultEps}, k_sub : {1},
     max_iter : {0, MaxIter}, tol : {0, TolCoarse}]
    \cup
    [solver : {"subspace_hits"}, eps : {DefaultEps}, k_sub : {1, n},
     max_iter : {0, MaxIter}, tol : {0, TolCoarse}]

\* Several calls are handed the same graph object and none has started.
InitConc ==
    /\ G \in Graphs
    /\ lapack \in Eigh(AuthMatrix(G), G.n)
    /\ IdleCall
    /\ IdleExceptRuns
    /\ runs \in [1..MaxRuns -> {RunInit(c) : c \in ConcConfigs(G.n)}]

\* mutant of StepRun: the calls keep x in one buffer they all write
StepRunSharedBuffer(i) ==
    /\ i \in DOMAIN runs
    /\ ~RunEnded(runs[i])
    /\ \E s \in {RunStep(G, lapack, runs[i])} :
          runs' = [j \in DOMAIN runs |->
                      IF j = i \/ RunEnded(runs[j]) THEN
                         IF j = i THEN s ELSE runs[j]
                      ELSE [runs[j] EXCEPT !.x = s.x]]
    /\ UNCHANGED exceptRuns

\* The scheduler lets call i take its next step: the call reads the graph
\* and writes its own frame.
StepRun(i) ==
    /\ i \in DOMAIN runs
    /\ ~RunEnded(runs[i])
    /\ \E s \in {RunStep(G, lapack, runs[i])} :
          runs' = [runs EXCEPT ![i] = s]
    /\ UNCHANGED exceptRuns

NextConc == \E i \in 1..MaxRuns : StepRun(i)

SpecConc == InitConc /\ [][NextConc]_vars

\* ------------------------------------------------------- the small example
\* G_small.add_edges_from([...]): the six edges, in the order of the list
SmallEdges ==
    << <<"Marina Bay Sands", "Gardens by the Bay">>,
       <<"Gardens by the Bay", "Singapore Zoo">>,
       <<"Singapore Zoo", "Marina Bay Sands">>,
       <<"Chinatown", "Gardens by the Bay">>,
       <<"Sentosa", "Singapore Zoo">>,
       <<"Marina Bay Sands", "Sentosa">> >>

\* list(G_small): the nodes in the order add_edges_from met them
SmallNodes == NodesOf(SmallEdges, <<>>)

\* the index of a node of G_small
NodeOf(name) == CHOOSE i \in 1..Len(SmallNodes) : SmallNodes[i] = name

\* the graph of a list of edges: every edge has the default weight 1
GraphOf(list) ==
    LET nodes == NodesOf(list, <<>>)
        at(name) == CHOOSE i \in 1..Len(nodes) : nodes[i] = name
        E == { <<at(list[j][1]), at(list[j][2])>> : j \in 1..Len(list) }
    IN  [n |-> Len(nodes), E |-> E, w |-> [e \in E |-> 1]]

G_small == GraphOf(SmallEdges)

\* The scores of nx.pagerank(G_small, alpha=0.85) are floats; they are kept
\* here as multiples of 1 / FloatScale.  The library's defaults: at most
\* NxMaxIter steps, and the run ends when the L1 distance of two iterates is
\* below n * tol, tol being NxTol / FloatScale.
FloatScale == 10000000
NxMaxIter == 100
NxTol == 10

\* the exact fractions y rounded down to multiples of 1 / sc
ToScale(y, n, sc) ==
    LET f == y.den \div sc
    IN  Frac([i \in Idx(n) |-> y.v[i] \div f], sc)

\* mutant of SmallUpdate: a node is given only what its in-edges bring
SmallUpdateNoTeleport(g, a, y) ==
    LET A == WeightedAdjacency(g)
        L == RowLcm(g)
    IN  ToScale(Frac([j \in Idx(g.n) |->
                        a * SumTo([i \in Idx(g.n) |->
                                     IF OutWeight(g, i) = 0 THEN y.v[i] * L
                                     ELSE y.v[i] * A[i][j]
                                          * (L \div OutWeight(g, i)) * g.n],
                                  g.n)],
                     y.den * StepFactor(g)),
                g.n, y.den)

\* one PageRank update in the precision of the scores
SmallUpdate(g, a, y) == ToScale(PageRankUpdate(g, a, y), g.n, y.den)

\* pagerank_small = nx.pagerank(G_small, alpha=...): the call is made
InitSmall ==
    /\ G = G_small
    /\ solver = "pagerank_small"
    /\ eps = DefaultEps
    /\ alpha \in AlphaSet
    /\ k_sub = 1
    /\ max_iter = NxMaxIter
    /\ tol = NxTol
    /\ lapack = <<>>
    /\ calls = <<>>
    /\ IdleRest
    /\ pc = "INITIALIZED"
    /\ M = <<>>
    /\ Q = <<>>
    /\ x = NoVec
    /\ x_new = NoVec
    /\ k = -1
    /\ steps = 0
    /\ broke = FALSE
    /\ hist = <<>>
    /\ ret = NoReturn
    /\ err = "none"

\* the start vector is the uniform one
SmallSetup ==
    /\ pc = "INITIALIZED"
    /\ solver = "pagerank_small"
    /\ \E x0 \in {Frac([i \in Idx(G.n) |-> FloatScale \div G.n], FloatScale)} :
          /\ x' = x0
          /\ hist' = <<x0>>
    /\ pc' = "ITERATING"
    /\ k' = 0
    /\ UNCHANGED <<M, Q, x_new, steps, broke, ret, err>>
    /\ UNCHANGED params
    /\ UNCHANGED aside

\* one step of the library's loop: the update, then the test against
\* n * tol; a loop that runs out raises PowerIterationFailedConvergence
SmallIter ==
    /\ pc = "ITERATING"
    /\ solver = "pagerank_small"
    /\ \E xn \in {SmallUpdate(G, alpha, x)} :
          /\ x_new' = xn
          /\ x' = xn
          /\ hist' = Append(hist, xn)
          /\ steps' = steps + 1
          /\ IF L1Dist(xn, x, G.n) < G.n * tol
             THEN /\ broke' = TRUE
                  /\ pc' = "CONVERGED"
                  /\ ret' = Return(xn, k)
                  /\ UNCHANGED <<k, err>>
             ELSE /\ UNCHANGED <<broke, ret>>
                  /\ IF k + 1 < max_iter
                     THEN /\ k' = k + 1
                          /\ UNCHANGED <<pc, err>>
                     ELSE /\ pc' = "ERROR"
                          /\ err' = "PowerIterationFailedConvergence"
                          /\ UNCHANGED k
    /\ UNCHANGED <<M, Q>>
    /\ UNCHANGED params
    /\ UNCHANGED aside

NextSmall ==
    \/ SmallSetup
    \/ SmallIter

SpecSmall == InitSmall /\ [][NextSmall]_vars

\* -------------------------------------------------------------- the top 5
\* The printing loop takes every entry of results in turn and prints the
\* five best-scored nodes of its score dict.  A score dict has the graph's
\* nodes as its keys, in the graph's order: it is held as the vector of the
\* values, node i being the i-th key.
TopCount == 5
MaxScored == 6
ScoreSet == {0, 1, 2}

\* dat["scores"].items(): the (node, score) pairs in the order of the keys
Items(y) == [i \in 1..Len(y.v) |-> [node |-> i, score |-> y.v[i], nan |-> y.nan]]

\* a < b on two scores: a comparison with NaN is False
ScoreLess(a, b) == ~a.nan /\ ~b.nan /\ a.score < b.score

\* mutant of InsertDesc: the item goes in front of the items of equal score
InsertDescUnstable(s, it) ==
    LET before == { i \in 1..Len(s) : ~ScoreLess(it, s[i]) }
        at == IF before = {} THEN Len(s) + 1
              ELSE CHOOSE i \in before : \A j \in before : i <= j
    IN  SubSeq(s, 1, at - 1) \o <<it>> \o SubSeq(s, at, Len(s))

\* the item put into a list sorted by falling score: in front of the first
\* item that is less than it, so behind every item it does not beat
InsertDesc(s, it) ==
    LET before == { i \in 1..Len(s) : ScoreLess(s[i], it) }
        at == IF before = {} THEN Len(s) + 1
              ELSE CHOOSE i \in before : \A j \in before : i <= j
    IN  SubSeq(s, 1, at - 1) \o <<it>> \o SubSeq(s, at, Len(s))

RECURSIVE SortedDesc(_, _)
\* sorted(items, key=lambda x: x[1], reverse=True): the sort is stable, and
\* reverse=True keeps the items of equal key in their original order
SortedDesc(items, upto) ==
    IF upto <= 0 THEN <<>>
    ELSE InsertDesc(SortedDesc(items, upto - 1), items[upto])

\* sorted(...)[:5]
Top5(y) == PySliceTo(SortedDesc(Items(y), Len(y.v)), TopCount)

\* the score dicts the solvers hand back: numbers for every node, or NaN for
\* every node
ScoreVectors == UNION { { Vec(f) : f \in [Idx(n) -> ScoreSet] } : n \in 0..MaxScored }

\* results holds one or two entries, over the same nodes
InitTop ==
    /\ \E y \in ScoreVectors :
       \E second \in {"none", "nan", "reversed"} :
          results =
            IF second = "none"
            THEN DictSet(NoDict, "PageRank", [scores |-> y])
            ELSE DictSet(DictSet(NoDict, "PageRank", [scores |-> y]),
                         "Subspace-HITS",
                         [scores |-> IF second = "nan" THEN NaNVec(Len(y.v))
                                     ELSE Vec(Reverse(y.v))])
    /\ top5 = <<>>
    /\ shown = <<>>
    /\ IdleSolver
    /\ IdleExceptTopResults

\* one pass of `for name, dat in results.items()`
PrintTop5 ==
    /\ Len(shown) < Len(results.keys)
    /\ \E name \in {results.keys[Len(shown) + 1]} :
       \E t \in {Top5(results.val[name].scores)} :
          /\ top5' = t
          /\ shown' = Append(shown, <<name, t>>)
    /\ UNCHANGED exceptTop

NextTop == PrintTop5

SpecTop == InitTop /\ [][NextTop]_vars

\* --------------------------------------------------------------- run_query
\* The embedding cache is loaded from a file of an earlier session, the nodes
\* of G it lacks are embedded and added, and run_query turns the cosine
\* similarities of the query to every cached embedding into the vector p.
\* Nodes are numbers: 1 .. G.n are the graph's, larger ones are not in G.
MaxStrangers == 1
SimSet == {-1, 0, 1}

\* the keys of a cache file: any of the nodes, the graph's or others
CacheFiles(n) ==
    { cached \in UNION { [1..len -> Idx(n + MaxStrangers)] : len \in 0..(n + MaxStrangers) } :
        \A i, j \in 1..Len(cached) : i < j => cached[i] < cached[j] }

SeqHas(s, e) == \E i \in 1..Len(s) : s[i] = e

RECURSIVE AppendMissing(_, _, _)
\* for node in missing: node_embeddings[node] = ..., missing being the nodes
\* i .. n of G that are not in the cache
AppendMissing(cached, i, n) ==
    IF i > n THEN cached
    ELSE AppendMissing(IF SeqHas(cached, i) THEN cached ELSE Append(cached, i),
                       i + 1, n)

\* the sum of d's values
DictSum(d) == SumTo([i \in 1..Len(d.keys) |-> d.val[d.keys[i]]], Len(d.keys))

\* min(d.values()), d not empty
DictMin(d) ==
    CHOOSE mn \in { d.val[c] : c \in DOMAIN d.val } :
        \A c \in DOMAIN d.val : mn <= d.val[c]

\* the module has loaded the cache file and has its working copy of the graph
InitQuery ==
    /\ G \in Graphs
    /\ node_embeddings \in CacheFiles(G.n)
    /\ sims = NoDict
    /\ p = [keys |-> <<>>, num |-> <<>>, den |-> 1]
    /\ qpc = "LOADED"
    /\ lapack = <<>>
    /\ IdleCall
    /\ IdleExceptQuery

\* missing = [n for n in G.nodes if n not in node_embeddings], and the
\* embeddings of those are added to the cache
EmbedMissing ==
    /\ qpc = "LOADED"
    /\ node_embeddings' = AppendMissing(node_embeddings, 1, G.n)
    /\ qpc' = "READY"
    /\ UNCHANGED <<sims, p>>
    /\ UNCHANGED exceptQuery

\* sims = {n: cosine(q_emb, emb) for n, emb in node_embeddings.items()}: the
\* query decides the similarities
RunQuerySims ==
    /\ qpc = "READY"
    /\ \E val \in [{ node_embeddings[i] : i \in 1..Len(node_embeddings) } -> SimSet] :
          sims' = [keys |-> node_embeddings, val |-> val]
    /\ qpc' = "SIMS"
    /\ UNCHANGED <<node_embeddings, p>>
    /\ UNCHANGED exceptQuery

\* mn = min(...); sims[n] -= mn; total = sum(...) or 1.0;
\* p = {n: sims[n] / total for n in sims}
PersonalizationOf(d) ==
    LET mn == DictMin(d)
        shifted == [keys |-> d.keys, val |-> [c \in DOMAIN d.val |-> d.val[c] - mn]]
        total == IF DictSum(shifted) = 0 THEN 1 ELSE DictSum(shifted)
    IN  [keys |-> d.keys, num |-> shifted.val, den |-> total]

\* the normalisation; min() of no values raises ValueError
RunQueryNormalize ==
    /\ qpc = "SIMS"
    /\ IF sims.keys = <<>>
       THEN /\ qpc' = "ValueError"
            /\ UNCHANGED <<sims, p>>
       ELSE \E pv \in {PersonalizationOf(sims)} :
               /\ p' = pv
               /\ sims' = [keys |-> sims.keys,
                           val |-> [c \in DOMAIN sims.val |-> pv.num[c]]]
               /\ qpc' = "NORMALIZED"
    /\ UNCHANGED node_embeddings
    /\ UNCHANGED exceptQuery

\* pr_pers = nx.pagerank(G, alpha=0.85, weight="weight", personalization=p)
RunQueryPageRank ==
    /\ qpc = "NORMALIZED"
    /\ qpc' = "PAGERANK"
    /\ UNCHANGED <<node_embeddings, sims, p>>
    /\ UNCHANGED exceptQuery

NextQuery ==
    \/ EmbedMissing
    \/ RunQuerySims
    \/ RunQueryNormalize
    \/ RunQueryPageRank

SpecQuery == InitQuery /\ [][NextQuery]_vars

\* ------------------------------------------------------ the OneMap cache
\* server.js keeps the results of OneMap searches in global.apiCache, a Map
\* that lives as long as the server process and is only ever added to.  A
\* term is a string, held as the sequence of its characters.
MaxTermLen == 2
MaxSearches == 3
Chars == {"a", "A", " "}
Terms == UNION { [1..len -> Chars] : len \in 1..MaxTermLen }

\* the result lists OneMap may send: none, one place, another place
ResultLists == {<<>>, <<"r1">>, <<"r2">>}

\* the ways a request ends in which searchOneMap has no results to read
Failures == {"no_results_field", "bad_status", "timeout", "network_error"}

\* how a request to OneMap may end: a body with a results list, a body with
\* none, a status that is not ok, the 3-second abort, a network error
Outcomes ==
    { [kind |-> "results", list |-> r] : r \in ResultLists }
        \cup { [kind |-> c, list |-> <<>>] : c \in Failures }

\* String.prototype.toLowerCase
LowerCase(t) == [i \in 1..Len(t) |-> IF t[i] = "A" THEN "a" ELSE t[i]]

RECURSIVE TrimStart(_)
TrimStart(t) ==
    IF t # <<>> /\ Head(t) = " " THEN TrimStart(Tail(t)) ELSE t

RECURSIVE TrimEnd(_)
TrimEnd(t) ==
    IF t # <<>> /\ t[Len(t)] = " " THEN TrimEnd(SubSeq(t, 1, Len(t) - 1)) ELSE t

\* String.prototype.trim
Trim(t) == TrimEnd(TrimStart(t))

\* const cacheKey = term.toLowerCase().trim()
CacheKey(term) == Trim(LowerCase(term))

\* One lookup of a term, up to the first await.  A key in the cache gives
\* the cached results at once; otherwise searchOneMap sends the request and
\* waits.  direct: the lookup is getThemeBasedResults' own apiCache.get.
\* after: history, whether a search for the key had completed successfully;
\* afterFailure: history, whether one had ended without results.  ended: how
\* the lookup got its value, "none" while it waits.
Lookup(st, term, direct) ==
    LET key == CacheKey(term)
        has == DictHas(apiCache, key)
        entry == [term |-> term, key |-> key,
                  after |-> DictHas(good, key),
                  expect |-> DictGet(good, key, <<>>),
                  afterFailure |-> \E i \in 1..Len(st.searches) :
                                      /\ st.searches[i].key = key
                                      /\ st.searches[i].ended \in Failures,
                  ended |-> IF has THEN "cache" ELSE "none",
                  by |-> IF direct /\ has THEN "apiCache.get" ELSE "searchOneMap",
                  http |-> ~has,
                  status |-> IF has THEN "returned" ELSE "pending",
                  value |-> DictGet(apiCache, key, <<>>)]
    IN  [searches |-> Append(st.searches, entry),
         requests |-> IF has THEN st.requests ELSE Append(st.requests, term)]

RECURSIVE LookupAll(_, _, _)
\* the lookups of the terms ts, in order, with nothing awaited in between
LookupAll(st, ts, direct) ==
    IF ts = <<>> THEN st
    ELSE LookupAll(Lookup(st, Head(ts), direct), Tail(ts), direct)

\* the server starts: the Map is created empty at the first request
InitCache ==
    /\ apiCache = NoDict
    /\ searches = <<>>
    /\ requests = <<>>
    /\ good = NoDict
    /\ IdleSolver
    /\ IdleExceptCache

\* a request handler calls searchOneMap(term)
SearchOneMap ==
    /\ Len(searches) < MaxSearches
    /\ \E term \in Terms :
       \E st \in {Lookup([searches |-> searches, requests |-> requests], term, FALSE)} :
          /\ searches' = st.searches
          /\ requests' = st.requests
    /\ UNCHANGED <<apiCache, good>>
    /\ UNCHANGED exceptCache

\* getThemeBasedResults: the terms of a Set (no two the same string) are
\* split by apiCache.has, the cached ones are read with apiCache.get and
\* searchOneMap is called for each of the others, all before anything is
\* awaited
ThemeBatch ==
    /\ Len(searches) + 2 <= MaxSearches
    /\ \E t1, t2 \in Terms :
          /\ t1 # t2
          /\ \E st \in {LookupAll([searches |-> searches, requests |-> requests],
                                  <<t1, t2>>, TRUE)} :
                /\ searches' = st.searches
                /\ requests' = st.requests
    /\ UNCHANGED <<apiCache, good>>
    /\ UNCHANGED exceptCache

\* mutant of CacheResults: an empty result list is not kept
CacheResultsNonEmpty(cache, key, list) ==
    IF list = <<>> THEN cache ELSE DictSet(cache, key, list)

\* if (data && data.results) apiCache.set(cacheKey, data.results): an empty
\* array is truthy
CacheResults(cache, key, list) == DictSet(cache, key, list)

\* mutant of HasResults: whatever body arrives is taken for a result list
HasBody(o) == o.kind \notin {"timeout", "network_error"}

\* the fetch was not aborted and did not throw, response.ok, and
\* data && data.results
HasResults(o) == o.kind = "results"

\* the request of a waiting searchOneMap call ends, and the call returns:
\* the results, which it caches, or [] when there were none to read
Respond ==
    \E i \in 1..Len(searches) :
    \E o \in Outcomes :
       /\ searches[i].status = "pending"
       /\ IF HasResults(o)
          THEN /\ apiCache' = CacheResults(apiCache, searches[i].key, o.list)
               /\ good' = DictSet(good, searches[i].key, o.list)
          ELSE UNCHANGED <<apiCache, good>>
       /\ searches' = [searches EXCEPT ![i].status = "returned",
                                       ![i].ended = o.kind,
                                       ![i].value = o.list]
       /\ UNCHANGED requests
       /\ UNCHANGED exceptCache

NextCache ==
    \/ SearchOneMap
    \/ ThemeBatch
    \/ Respond

SpecCache == InitCache /\ [][NextCache]_vars

\* ------------------------------------------------------- the POST routes
\* server.js answers three POST routes.  Each handler reads query from the
\* parsed body, answers 400 when it is missing, and otherwise awaits calls to
\* OpenAI and, in /api/hangout/search, to OneMap, one at a time; other
\* requests are taken while it waits.
MaxRequests == 3
MaxOneMap == 2

Routes == {"/api/openai/chat", "/api/hangout/search", "/api/grammar/check"}

\* what req.body.query may be once express.json() has parsed the body into
\* an object ({} when the request carried none): nothing, null, a string.
\* A value is held as its type and its text.
Undefined == [t |-> "undefined", v |-> ""]
Null == [t |-> "null", v |-> ""]
Str(s) == [t |-> "string", v |-> s]
Queries == {Undefined, Null, Str(""), Str(" "), Str("cafe")}

\* mutant of Not: only a body without the field counts as missing
NotDefined(q) == q.t = "undefined"

\* !query
Not(q) ==
    \/ q.t \in {"undefined", "null"}
    \/ q.t = "string" /\ q.v = ""
    \/ q.t = "boolean" /\ q.v = "false"
    \/ q.t = "number" /\ q.v = "0"

\* the error of the route's catch block
FailureOf(route) ==
    CASE route = "/api/openai/chat" -> "Failed to get suggestions from OpenAI"
      [] route = "/api/hangout/search" -> "Failed to perform hangout search"
      [] route = "/api/grammar/check" -> "Failed to check grammar"

\* the first call the handler awaits
FirstStage(route) ==
    CASE route = "/api/openai/chat" -> "criteria"
      [] route = "/api/hangout/search" -> "parse"
      [] route = "/api/grammar/check" -> "grammar"

\* what the handler may do when the call it awaited at stage has settled:
\* await another call, or answer ("done").  The searches of
\* /api/hangout/search are skipped when every term is cached, and its
\* ranking when there is no place to rank.
NextStages(route, stage) ==
    CASE route = "/api/openai/chat" /\ stage = "criteria" -> {"suggest"}
      [] route = "/api/openai/chat" /\ stage = "suggest" -> {"grammar"}
      [] route = "/api/hangout/search" /\ stage \in {"parse", "search"} ->
             {"search", "rank", "suggest"}
      [] route = "/api/hangout/search" /\ stage = "rank" -> {"suggest"}
      [] route = "/api/hangout/search" /\ stage = "suggest" -> {"grammar"}
      [] OTHER -> {"done"}

\* searchOneMap and the ranking catch what is thrown; elsewhere a rejected
\* call reaches the route's catch block
Caught(stage) == stage \in {"search", "rank"}

InitRoutes ==
    /\ handled = <<>>
    /\ IdleSolver
    /\ IdleExceptRoutes

\* a request arrives: the handler runs to its first await, or answers 400
PostRoute ==
    /\ Len(handled) < MaxRequests
    /\ \E route \in Routes, q \in Queries :
          handled' = Append(handled,
              IF Not(q)
              THEN [route |-> route, query |-> q, stage |-> "done",
                    status |-> 400, error |-> "Missing query in request body",
                    openai |-> 0, onemap |-> 0]
              ELSE [route |-> route, query |-> q, stage |-> FirstStage(route),
                    status |-> 0, error |-> "",
                    openai |-> 1, onemap |-> 0])
    /\ UNCHANGED exceptRoutes

\* the call a handler awaits is fulfilled, or is rejected where that is
\* caught, and the handler goes on to its next await or to res.json
Settle ==
    \E i \in 1..Len(handled) :
       LET r == handled[i] IN
       /\ r.stage # "done"
       /\ \E next \in NextStages(r.route, r.stage) :
             /\ next = "search" => r.onemap < MaxOneMap
             /\ handled' = [handled EXCEPT ![i] =
                   [r EXCEPT !.stage = next,
                             !.status = IF next = "done" THEN 200 ELSE 0,
                             !.openai = IF next \in {"done", "search"} THEN @ ELSE @ + 1,
                             !.onemap = IF next = "search" THEN @ + 1 ELSE @]]
       /\ UNCHANGED exceptRoutes

\* the call a handler awaits is rejected and nothing catches it before the
\* route's catch block
Reject ==
    \E i \in 1..Len(handled) :
       LET r == handled[i] IN
       /\ r.stage # "done"
       /\ ~Caught(r.stage)
       /\ handled' = [handled EXCEPT ![i] =
             [r EXCEPT !.stage = "done", !.status = 500,
                       !.error = FailureOf(r.route)]]
       /\ UNCHANGED exceptRoutes

NextRoutes ==
    \/ PostRoute
    \/ Settle
    \/ Reject

SpecRoutes == InitRoutes /\ [][NextRoutes]_vars

\* ------------------------------------------------- the places of a search
\* /api/hangout/search once the criteria are parsed: the places OneMap gave
\* are made unique by name, more are searched for when there are fewer than
\* maxResults, OpenAI ranks them, and the first maxResults are answered.
\* The arrays searchOneMap returns are the arrays of apiCache, so the venue
\* objects a handler works on are shared by all requests.  The query is one
\* whose activityType is 'cafe'.
MaxHangouts == 2
MaxRankList == 2
MaxRankIndex == 2
maxResults == 5

\* The venue objects OneMap's responses were parsed into, in the order of
\* the cached arrays.  BUILDING: the name, as its characters.  carPark: the
\* name holds 'CAR PARK', which filterIrrelevantResults lets pass for a cafe
\* and the two later filters do not.  No name holds another of the filters'
\* keywords, and none is blank.
Buildings ==
    << [BUILDING |-> <<"c">>, carPark |-> TRUE],
       [BUILDING |-> <<"a">>, carPark |-> FALSE],
       [BUILDING |-> <<"A", " ">>, carPark |-> FALSE],
       [BUILDING |-> <<"b">>, carPark |-> FALSE],
       [BUILDING |-> <<"e">>, carPark |-> FALSE],
       [BUILDING |-> <<"d">>, carPark |-> FALSE],
       [BUILDING |-> <<"f">>, carPark |-> FALSE] >>

VenueIds == 1..Len(Buildings)

\* result.BUILDING || result.SEARCHVAL || ''
NameOf(id) == Buildings[id].BUILDING

\* String.prototype.toUpperCase
UpperCase(t) ==
    [i \in 1..Len(t) |->
        CASE t[i] = "a" -> "A" [] t[i] = "b" -> "B" [] t[i] = "c" -> "C"
          [] t[i] = "d" -> "D" [] t[i] = "e" -> "E" [] t[i] = "f" -> "F"
          [] OTHER -> t[i]]

\* the order of the characters in localeCompare
Collation == <<" ", "A", "B", "C", "D", "E", "F">>

CharOrd(c) == CHOOSE i \in 1..Len(Collation) : Collation[i] = c

RECURSIVE ComesBefore(_, _)
\* a.localeCompare(b) < 0
ComesBefore(a, b) ==
    IF b = <<>> THEN FALSE
    ELSE IF a = <<>> THEN TRUE
    ELSE IF Head(a) # Head(b) THEN CharOrd(Head(a)) < CharOrd(Head(b))
    ELSE ComesBefore(Tail(a), Tail(b))

\* name.toLowerCase().trim()
NormalizedName(id) == Trim(LowerCase(NameOf(id)))

\* seenNames.has(normalizedName), seenNames being the names of unique
Seen(unique, id) ==
    \E u \in 1..Len(unique) : NormalizedName(unique[u]) = NormalizedName(id)

\* uniqueResults.find(r => existingName === normalizedName)
Find(unique, id) ==
    unique[CHOOSE u \in 1..Len(unique) :
              /\ NormalizedName(unique[u]) = NormalizedName(id)
              /\ \A v \in 1..(u - 1) : NormalizedName(unique[v]) # NormalizedName(id)]

\* occurrenceCounts.get(normalizedName) once all[j] is counted
Occurrences(all, j) ==
    Cardinality({ i \in 1..j : NormalizedName(all[i]) = NormalizedName(all[j]) })

RECURSIVE CountUnique(_, _, _)
\* for (const result of allResults), from all[j] on.  st.unique is
\* uniqueResults and st.heap the venue objects, on which the loop sets
\* occurrenceCount.
CountUnique(all, j, st) ==
    IF j > Len(all) THEN st
    ELSE IF NormalizedName(all[j]) = <<>> THEN CountUnique(all, j + 1, st)
    ELSE IF ~Seen(st.unique, all[j])
    THEN CountUnique(all, j + 1,
             [unique |-> Append(st.unique, all[j]),
              heap |-> [st.heap EXCEPT ![all[j]].occurrenceCount = Occurrences(all, j)]])
    ELSE CountUnique(all, j + 1,
             [unique |-> st.unique,
              heap |-> [st.heap EXCEPT
                           ![Find(st.unique, all[j])].occurrenceCount = Occurrences(all, j)]])

\* the filter of the additional results and of placesToRank
NoCarPark(id) == ~Buildings[id].carPark

RECURSIVE AddUnique(_, _)
\* the additional results are added until there are maxResults
AddUnique(unique, list) ==
    IF list = <<>> \/ Len(unique) >= maxResults THEN unique
    ELSE AddUnique(IF NormalizedName(Head(list)) = <<>> \/ Seen(unique, Head(list))
                   THEN unique
                   ELSE Append(unique, Head(list)),
                   Tail(list))

RECURSIVE InsertByName(_, _)
InsertByName(s, id) ==
    IF s = <<>> THEN <<id>>
    ELSE IF ComesBefore(UpperCase(NameOf(id)), UpperCase(NameOf(Head(s))))
    THEN <<id>> \o s
    ELSE <<Head(s)>> \o InsertByName(Tail(s), id)

RECURSIVE SortByName(_)
\* uniqueResults.sort((a, b) => nameA.localeCompare(nameB)); the sort is
\* stable
SortByName(s) ==
    IF s = <<>> THEN <<>>
    ELSE InsertByName(SortByName(SubSeq(s, 1, Len(s) - 1)), s[Len(s)])

RECURSIVE InsertByRank(_, _)
InsertByRank(s, e) ==
    IF s = <<>> THEN <<e>>
    ELSE IF e.rank < Head(s).rank THEN <<e>> \o s
    ELSE <<Head(s)>> \o InsertByRank(Tail(s), e)

RECURSIVE SortByRank(_)
\* rankingData.sort((a, b) => a.rank - b.rank)
SortByRank(s) ==
    IF s = <<>> THEN <<>>
    ELSE InsertByRank(SortByRank(SubSeq(s, 1, Len(s) - 1)), s[Len(s)])

\* array.slice(0, n)
Slice(s, n) == SubSeq(s, 1, Min(n, Len(s)))

\* What the ranking call may give.  It throws, or its text is parsed into
\* rankingData: any short list of index and rank (an index may be out of
\* range or come twice; [] also stands for a text that holds no JSON), or
\* the list that ranks each of the n places once and gives each an image.
RankLists ==
    UNION { [1..len -> [index : 0..MaxRankIndex, rank : 1..MaxRankList, imageUrl : {""}]] :
              len \in 0..MaxRankList }

FullRanking(n) ==
    [i \in 1..n |-> [index |-> i, rank |-> n + 1 - i, imageUrl |-> "url"]]

RankingReplies(n) ==
    {[kind |-> "throws", data |-> <<>>]}
        \cup { [kind |-> "json", data |-> d] : d \in RankLists \cup {FullRanking(n)} }

RECURSIVE RankedPlaces(_, _, _)
\* rankingData.map(rankInfo => ...).filter(place => place !== null): the
\* places of the entries whose index is one of placesToRank's, each place
\* given the entry's rank and imageUrl
RankedPlaces(data, places, st) ==
    IF data = <<>> THEN st
    ELSE IF Head(data).index - 1 >= 0 /\ Head(data).index - 1 < Len(places)
    THEN RankedPlaces(Tail(data), places,
             [ranked |-> Append(st.ranked, places[Head(data).index]),
              heap |-> [st.heap EXCEPT
                           ![places[Head(data).index]].rank = Head(data).rank,
                           ![places[Head(data).index]].imageUrl = Head(data).imageUrl]])
    ELSE RankedPlaces(Tail(data), places, st)

\* enrichVenueData(venue, criteria): what is answered for a venue.  rank is
\* 0 for null; venue.rank || null is null when the property is not set.
enrichVenueData(id, heap) ==
    [name |-> NameOf(id),
     rank |-> heap[id].rank,
     imageUrl |-> IF heap[id].imageUrl = "" THEN "default" ELSE heap[id].imageUrl]

\* Promise.all(list.map(venue => enrichVenueData(venue, criteria)))
EnrichAll(list, heap) == [i \in 1..Len(list) |-> enrichVenueData(list[i], heap)]

\* const topRankedPlaces = rankedPlaces.slice(0, maxResults)
TopRanked(ranked) == Slice(ranked, maxResults)

\* the server has cached what OneMap gave: the objects are as parsed, with
\* no rank, imageUrl or occurrenceCount (0 and "" stand for not set)
InitRank ==
    /\ venues = [id \in VenueIds |-> [rank |-> 0, imageUrl |-> "", occurrenceCount |-> 0]]
    /\ hangouts = <<>>
    /\ IdleSolver
    /\ IdleExceptRank

\* a request with a query is taken and parsed, and its handler awaits the
\* searches of getThemeBasedResults
HangoutSearch ==
    /\ Len(hangouts) < MaxHangouts
    /\ hangouts' = Append(hangouts,
           [pc |-> "search", uniqueResults |-> <<>>, placesToRank |-> <<>>,
            ranking |-> "pending", results |-> <<>>, status |-> 0])
    /\ UNCHANGED venues
    /\ UNCHANGED exceptRank

\* placesToRank is filtered from unique, and ranked if it holds a place:
\* the handler awaits OpenAI.  With no place to rank uniqueResults is
\* sorted by name and its first maxResults are answered.
AfterCollecting(r, unique, heap) ==
    LET places == SelectSeq(unique, NoCarPark) IN
    IF places # <<>>
    THEN [r EXCEPT !.pc = "rank", !.uniqueResults = unique, !.placesToRank = places]
    ELSE [r EXCEPT !.pc = "tail", !.uniqueResults = SortByName(unique),
                   !.ranking = "skipped",
                   !.results = EnrichAll(Slice(SortByName(unique), maxResults), heap)]

\* the searches end: allResults is the first n objects of the cached array.
\* The places are counted and made unique; with fewer than maxResults the
\* handler awaits the searches for the additional terms.
ThemeResults ==
    \E i \in 1..Len(hangouts) :
       /\ hangouts[i].pc = "search"
       /\ \E n \in 0..Len(Buildings) :
          \E st \in {CountUnique([j \in 1..n |-> j], 1, [unique |-> <<>>, heap |-> venues])} :
             /\ venues' = st.heap
             /\ hangouts' = [hangouts EXCEPT ![i] =
                   IF Len(st.unique) < maxResults
                   THEN [@ EXCEPT !.pc = "more", !.uniqueResults = st.unique]
                   ELSE AfterCollecting(@, st.unique, st.heap)]
       /\ UNCHANGED exceptRank

\* the additional searches end, with nothing or with all the cached objects
AdditionalResults ==
    \E i \in 1..Len(hangouts) :
       /\ hangouts[i].pc = "more"
       /\ \E more \in {<<>>, [j \in VenueIds |-> j]} :
             hangouts' = [hangouts EXCEPT ![i] =
                 AfterCollecting(@, AddUnique(@.uniqueResults, SelectSeq(more, NoCarPark)),
                                 venues)]
       /\ UNCHANGED venues
       /\ UNCHANGED exceptRank

\* the ranking call ends.  A list with an entry is mapped to places, which
\* are given its rank and image, and the first maxResults are enriched;
\* when the call threw, the list is empty or no entry maps to a place,
\* uniqueResults is sorted by name and its first maxResults are enriched.
RankingDone ==
    \E i \in 1..Len(hangouts) :
       LET r == hangouts[i] IN
       /\ r.pc = "rank"
       /\ \E reply \in RankingReplies(Len(r.placesToRank)) :
          \E st \in {RankedPlaces(SortByRank(reply.data), r.placesToRank,
                                  [ranked |-> <<>>, heap |-> venues])} :
             /\ venues' = st.heap
             /\ hangouts' = [hangouts EXCEPT ![i] =
                   IF st.ranked # <<>>
                   THEN [r EXCEPT !.pc = "tail", !.ranking = "ranked",
                                  !.results = EnrichAll(TopRanked(st.ranked), st.heap)]
                   ELSE [r EXCEPT !.pc = "tail", !.ranking = "failed",
                                  !.uniqueResults = SortByName(r.uniqueResults),
                                  !.results = EnrichAll(Slice(SortByName(r.uniqueResults),
                                                              maxResults), st.heap)]]
       /\ UNCHANGED exceptRank

\* the suggestions and the grammar check end and res.json sends the
\* enriched results, or one of the two throws and the answer is a 500
SearchResponds ==
    \E i \in 1..Len(hangouts), ok \in BOOLEAN :
       /\ hangouts[i].pc = "tail"
       /\ hangouts' = [hangouts EXCEPT ![i] =
             IF ok
             THEN [@ EXCEPT !.pc = "done", !.placesToRank = <<>>, !.status = 200]
             ELSE [pc |-> "done", uniqueResults |-> <<>>, placesToRank |-> <<>>,
                   ranking |-> @.ranking, results |-> <<>>, status |-> 500]]
       /\ UNCHANGED venues
       /\ UNCHANGED exceptRank

NextRank ==
    \/ HangoutSearch
    \/ ThemeResults
    \/ AdditionalResults
    \/ RankingDone
    \/ SearchResponds

SpecRank == InitRank /\ [][NextRank]_vars

\* ------------------------------------------------- the criteria of a query
\* /api/hangout/search asks OpenAI for the criteria of the query as JSON,
\* merges what it can parse into criteria, builds the search terms from
\* them and, once the places are found, lists the criteria that are missing.
Bool(b) == [t |-> "boolean", v |-> IF b THEN "true" ELSE "false"]
Num(s) == [t |-> "number", v |-> s]

\* the objects the reply may hold; a field may also be left out
ParsedCriteria ==
    [activityType : {Undefined, Null, Str("cafe"), Str("bar")},
     region : {Null, Str("East")},
     groupSize : {Null, Num("0"), Num("2")},
     isIndoor : {Undefined, Null, Bool(TRUE), Bool(FALSE)}]

\* the reply: JSON, JSON inside other text, text with no braces, or braces
\* around what JSON.parse rejects
ParseTexts ==
    { [kind |-> c, object |-> o] : c \in {"json", "text with json"}, o \in ParsedCriteria }
        \cup { [kind |-> c] : c \in {"text", "text with braces"} }

\* a || b
Or(a, b) == IF Not(a) THEN b ELSE a

\* let criteria = { activityType: null, ... }, and the merge of the parsed
\* object when there is one
CriteriaOf(text) ==
    IF text.kind \in {"json", "text with json"}
    THEN [activityType |-> Or(text.object.activityType, Null),
          region |-> Or(text.object.region, Null),
          groupSize |-> Or(text.object.groupSize, Null),
          isIndoor |-> Or(text.object.isIndoor, Null)]
    ELSE [activityType |-> Null, region |-> Null, groupSize |-> Null, isIndoor |-> Null]

\* primaryTerm, as its words: the activity type or 'hangout', the region,
\* and 'indoor' or 'outdoor' when isIndoor is not null
PrimaryTerm(c) ==
    <<IF ~Not(c.activityType) /\ c.activityType.t = "string"
      THEN c.activityType.v ELSE "hangout">>
        \o (IF ~Not(c.region) THEN <<c.region.v>> ELSE <<>>)
        \o (IF c.isIndoor # Null
            THEN <<IF ~Not(c.isIndoor) THEN "indoor" ELSE "outdoor">>
            ELSE <<>>)

\* searchTerms: the variations pushed for a bar, and primaryTerm unshifted
SearchTerms(c) ==
    <<PrimaryTerm(c)>>
        \o (IF ~Not(c.activityType) /\ c.activityType.t = "string" /\ c.activityType.v = "bar"
            THEN << <<"pub">>, <<"lounge">>, <<"cocktail", "bar">> >>
            ELSE <<>>)

\* missingCriteria
MissingCriteria(c) ==
    (IF Not(c.activityType) THEN <<"activity type">> ELSE <<>>)
        \o (IF Not(c.region) THEN <<"region">> ELSE <<>>)
        \o (IF Not(c.groupSize) THEN <<"group size">> ELSE <<>>)
        \o (IF c.isIndoor = Null THEN <<"indoor/outdoor preference">> ELSE <<>>)

InitCriteria ==
    /\ parseText = [kind |-> "none"]
    /\ criteria = <<>>
    /\ searchTerms = <<>>
    /\ missingCriteria = <<>>
    /\ cpc = "IDLE"
    /\ IdleSolver
    /\ IdleExceptCriteria

\* a request with a query arrives and the handler awaits the parse
ParseQuery ==
    /\ cpc \in {"IDLE", "DONE"}
    /\ cpc' = "PARSE"
    /\ parseText' = [kind |-> "none"]
    /\ criteria' = <<>>
    /\ searchTerms' = <<>>
    /\ missingCriteria' = <<>>
    /\ UNCHANGED exceptCriteria

\* the parse is answered: criteria and the search terms are built, and the
\* handler awaits the searches
ParseCompletion ==
    /\ cpc = "PARSE"
    /\ \E text \in ParseTexts :
          /\ parseText' = text
          /\ criteria' = CriteriaOf(text)
          /\ searchTerms' = SearchTerms(CriteriaOf(text))
    /\ cpc' = "SEARCH"
    /\ UNCHANGED missingCriteria
    /\ UNCHANGED exceptCriteria

\* the places are found and ranked: the prompt for the suggestions is built
\* from the criteria that are missing, and parsedCriteria: criteria is
\* answered
TargetedPrompt ==
    /\ cpc = "SEARCH"
    /\ missingCriteria' = MissingCriteria(criteria)
    /\ cpc' = "DONE"
    /\ UNCHANGED <<parseText, criteria, searchTerms>>
    /\ UNCHANGED exceptCriteria

NextCriteria ==
    \/ ParseQuery
    \/ ParseCompletion
    \/ TargetedPrompt

SpecCriteria == InitCriteria /\ [][NextCriteria]_vars

\* ------------------------------------------------------------ the client
\* HangoutGuide.js: fetchDataFromAPI posts the query and, when the answer
\* comes, shows it if its requestTimestamp is still the latest;
\* appendSuggestion has the grammar of the new query checked and then
\* fetches with what comes back.  Handlers run one at a time; the answers of
\* the server come in any order.
MaxFetches == 3
MaxClock == 2

\* what fetchDataFromAPI may be given: nothing, blanks, a query
InputQueries == {"", " ", "cafe"}

\* !inputQuery || inputQuery.trim() === ''
Blank(inputQuery) == inputQuery \in {"", " "}

\* the state after useState(...) and useRef(0), at some time after 1970
InitClient ==
    /\ clock = 1
    /\ latestRequestRef = 0
    /\ fetches = <<>>
    /\ react = [suggestions |-> <<>>, results |-> <<>>, error |-> "null",
                isLoading |-> FALSE]
    /\ IdleSolver
    /\ IdleExceptClient

\* a millisecond passes
Tick ==
    /\ clock < MaxClock
    /\ clock' = clock + 1
    /\ UNCHANGED <<latestRequestRef, fetches, react>>
    /\ UNCHANGED exceptClient

\* fetchDataFromAPI(inputQuery) up to its await, as a change of the three
\* variables it touches; requestTimestamp is Date.now()
FetchDataFromAPI(inputQuery, st) ==
    IF Blank(inputQuery)
    THEN [latestRequestRef |-> st.latestRequestRef,
          fetches |-> [i \in 1..Len(st.fetches) |->
                          IF st.fetches[i].kind = "search" /\ st.fetches[i].awaited
                          THEN [st.fetches[i] EXCEPT !.cleared = TRUE]
                          ELSE st.fetches[i]],
          react |-> [st.react EXCEPT !.suggestions = <<>>]]
    ELSE [latestRequestRef |-> clock,
          fetches |-> Append(st.fetches,
                          [kind |-> "search",
                           requestTimestamp |-> clock,
                           awaited |-> TRUE, cleared |-> FALSE]),
          react |-> [st.react EXCEPT !.isLoading = TRUE]]

Here == [latestRequestRef |-> latestRequestRef, fetches |-> fetches, react |-> react]

\* the debounce timer fires after the query changed, or Enter is pressed on
\* a query that is not blank
Fetch ==
    /\ Len(fetches) < MaxFetches
    /\ \E inputQuery \in InputQueries :
       \E st \in {FetchDataFromAPI(inputQuery, Here)} :
          /\ latestRequestRef' = st.latestRequestRef
          /\ fetches' = st.fetches
          /\ react' = st.react
    /\ UNCHANGED clock
    /\ UNCHANGED exceptClient

\* if (requestTimestamp === latestRequestRef.current)
IsLatest(f) == f.requestTimestamp = latestRequestRef

\* the answer to the search fetches[i] comes: response.suggestions and
\* response.results, here i's own, are shown if the request is the latest
SearchResolves ==
    \E i \in 1..Len(fetches) :
       /\ fetches[i].kind = "search"
       /\ fetches[i].awaited
       /\ fetches' = [fetches EXCEPT ![i].awaited = FALSE]
       /\ react' = IF IsLatest(fetches[i])
                   THEN [suggestions |-> <<i>>, results |-> <<i>>, error |-> "null",
                         isLoading |-> FALSE]
                   ELSE react
       /\ UNCHANGED <<clock, latestRequestRef>>
       /\ UNCHANGED exceptClient

\* the search fetches[i] fails
SearchRejects ==
    \E i \in 1..Len(fetches) :
       /\ fetches[i].kind = "search"
       /\ fetches[i].awaited
       /\ fetches' = [fetches EXCEPT ![i].awaited = FALSE]
       /\ react' = IF IsLatest(fetches[i])
                   THEN [react EXCEPT !.suggestions = <<>>,
                                      !.error = "Failed to find hangout spots. Please try again.",
                                      !.isLoading = FALSE]
                   ELSE react
       /\ UNCHANGED <<clock, latestRequestRef>>
       /\ UNCHANGED exceptClient

\* a suggestion is clicked: appendSuggestion calls checkGrammarAndApply,
\* which sets isLoading and awaits the grammar check
AppendSuggestion ==
    /\ Len(fetches) < MaxFetches
    /\ react.suggestions # <<>>
    /\ fetches' = Append(fetches, [kind |-> "grammar", requestTimestamp |-> 0,
                                   awaited |-> TRUE, cleared |-> FALSE])
    /\ react' = [react EXCEPT !.isLoading = TRUE]
    /\ UNCHANGED <<clock, latestRequestRef>>
    /\ UNCHANGED exceptClient

\* the grammar check fetches[i] ends: checkGrammarAndApply sets the query,
\* clears isLoading and returns the corrected query, and appendSuggestion
\* goes on to fetchDataFromAPI(correctedQuery)
GrammarSettles ==
    \E i \in 1..Len(fetches) :
       /\ fetches[i].kind = "grammar"
       /\ fetches[i].awaited
       /\ \E correctedQuery \in InputQueries :
          \E st \in {FetchDataFromAPI(correctedQuery,
                         [latestRequestRef |-> latestRequestRef,
                          fetches |-> [fetches EXCEPT ![i].awaited = FALSE],
                          react |-> [react EXCEPT !.isLoading = FALSE]])} :
             /\ latestRequestRef' = st.latestRequestRef
             /\ fetches' = st.fetches
             /\ react' = st.react
       /\ UNCHANGED clock
       /\ UNCHANGED exceptClient

NextClient ==
    \/ Tick
    \/ Fetch
    \/ SearchResolves
    \/ SearchRejects
    \/ AppendSuggestion
    \/ GrammarSettles

SpecClient == InitClient /\ [][NextClient]_vars

\* the same with every awaited answer arriving in the end: the browser ends
\* each request with an answer or a failure
SpecClientLive ==
    /\ SpecClient
    /\ WF_vars(SearchResolves \/ SearchRejects)
    /\ WF_vars(GrammarSettles)

\* ================================================================ claims

Finished == pc \in Terminal \/ pc = "ERROR"

\* the arguments are in the ranges the specification allows, and the graph
\* has a node
ValidConfig ==
    /\ G.n >= 1
    /\ max_iter >= 1
    /\ tol > 0
    /\ solver = "subspace_hits" => k_sub \in 1..G.n
    /\ solver = "randomised_hits" => eps \in 1..100

\* ---------------------------------------------------------------- C1
C1_Progress == ~Finished => ENABLED Next

C1_Inv ==
    /\ pc \in {"INITIALIZED", "ITERATING", "CONVERGED", "MAX_ITER_REACHED", "ERROR"}
    /\ steps <= Max(max_iter, 0)
    /\ pc = "ITERATING" => steps = k /\ k < max_iter
    /\ pc \in Terminal => ret.returned /\ steps >= 1
    /\ pc = "CONVERGED" <=> (ret.returned /\ broke)
    /\ pc = "MAX_ITER_REACHED" <=> (ret.returned /\ ~broke)
    /\ pc = "ERROR" => steps = 0 /\ ~ret.returned /\ (G.n = 0 \/ max_iter <= 0)
    /\ C1_Progress

C1_Step ==
    /\ pc = "INITIALIZED" => pc' \in {"ITERATING", "ERROR"} /\ steps' = 0
    /\ pc = "ITERATING" => pc' \in {"ITERATING"} \cup Terminal /\ steps' = steps + 1
    /\ ~Finished

\* C1: every run ends within the cap.  A call on a non-empty graph with
\* max_iter >= 1 goes INITIALIZED -> ITERATING -> CONVERGED or
\* MAX_ITER_REACHED, takes one update step per pass and never more than
\* max_iter of them, reaches exactly one of the two final states, and takes
\* no step from a final state.  The only other exit is an exception raised
\* before the first update step, on an empty graph or with max_iter <= 0.
\* A run that has not ended can always take its next step, and each step of
\* the loop uses up one of the max_iter passes, so every run ends.
C1_TerminatesWithinCap ==
    /\ []C1_Inv
    /\ [][C1_Step]_vars

C1_Witness ==
    /\ solver = "subspace_hits"
    /\ ValidConfig
    /\ G.n = MaxN
    /\ pc = "MAX_ITER_REACHED"
    /\ max_iter = MaxIter
    /\ steps = max_iter
    /\ ~ret.auth.nan

\* ---------------------------------------------------------------- C2
\* C2: a caller can tell a converged run from one that hit the cap.  The
\* functions return (auth, iterations) and nothing else, so all a caller can
\* go by is whether the count stayed below max_iter: the claim is that this
\* is so exactly when the test passed (the loop was left by break).
C2_CallerCanTell ==
    (ValidConfig /\ ret.returned) => (broke <=> ret.iters < max_iter)

\* ---------------------------------------------------------------- C3
\* C3: the count returned is the number of update steps performed: the
\* number of the first pass whose test passed, max_iter when none did, and
\* so a number in 1..max_iter.
C3_IterationCount ==
    ret.returned =>
        /\ ret.iters = steps
        /\ ret.iters \in 1..max_iter
        /\ Len(hist) = steps + 1
        /\ \A j \in 1..(steps - 1) : ~TestPasses(hist[j + 1], hist[j], G.n, tol)
        /\ broke <=> TestPasses(hist[steps + 1], hist[steps], G.n, tol)
        /\ ~broke => ret.iters = max_iter

C3_Witness ==
    /\ ret.returned
    /\ broke
    /\ ret.iters = 2
    /\ max_iter = 3

\* ---------------------------------------------------------------- C4
\* C4: a zero vector is never divided by its norm: in a run with valid
\* arguments no iterate and no returned vector holds NaN.
C4_NoNaN ==
    ValidConfig =>
        /\ ~x.nan
        /\ ~x_new.nan
        /\ ret.returned => ~ret.auth.nan

\* ---------------------------------------------------------------- C5
SumsToOne(y, n) == ~y.nan /\ y.den > 0 /\ SumTo(y.v, n) = y.den

\* C5: on every non-empty graph, dangling nodes included, and for every
\* alpha in (0,1), the PageRank update maps a vector summing to 1 to a vector
\* summing to 1: the start vector, every iterate and the vector returned sum
\* to exactly 1, and nothing renormalises them.
C5_UpdatePreservesSum ==
    solver = "pagerank" =>
        /\ \A j \in 1..Len(hist) : SumsToOne(hist[j], G.n)
        /\ pc = "ITERATING" =>
              /\ SumsToOne(x, G.n)
              /\ SumsToOne(PageRankUpdate(G, alpha, x), G.n)
        /\ ret.returned => SumsToOne(ret.auth, G.n)

C5_Witness ==
    /\ solver = "pagerank"
    /\ G.n = 3
    /\ \E i \in Idx(G.n) : OutWeight(G, i) = 0
    /\ \E i \in Idx(G.n) : OutWeight(G, i) = 3
    /\ alpha = DefaultAlpha
    /\ ret.returned
    /\ steps = 2
    /\ \E i, j \in Idx(G.n) : ret.auth.v[i] # ret.auth.v[j]

\* ---------------------------------------------------------------- C6
Isolated(g, i) == \A e \in g.E : e[1] # i /\ e[2] # i

Started == pc = "ITERATING" \/ pc \in Terminal

PositiveRun ==
    /\ \A i, j \in Idx(G.n) : M[i][j] > 0
    /\ ~x.nan
    /\ \A i \in Idx(G.n) : x.v[i] > 0
    /\ ~x_new.nan
    /\ steps >= 1 => \A i \in Idx(G.n) : x_new.v[i] > 0
    /\ pc = "ITERATING" => Norm2(MatVec(M, x, G.n), G.n) > 0

\* C7 as stated: for every eps > 0 each entry of the mixed matrix is
\* strictly positive, and so is each component of each iterate.
C7_PositiveForEveryEps ==
    (solver = "randomised_hits" /\ eps > 0 /\ Started) => PositiveRun

\* C7 as amended: for every graph with n >= 1 nodes and every eps with
\* 0 < eps <= 1 each entry of the mixed matrix is strictly positive; from the
\* uniform start vector each iterate has all components strictly positive
\* and the norm it is divided by is never zero.
C7_PositiveForEpsUpTo1 ==
    (solver = "randomised_hits" /\ eps \in 1..100 /\ Started) => PositiveRun

C7_Witness ==
    /\ solver = "randomised_hits"
    /\ eps = DefaultEps
    /\ G.n = 3
    /\ Cardinality(G.E) = 1
    /\ pc = "ITERATING"
    /\ steps = 2

\* ---------------------------------------------------------------- C8
RECURSIVE PowerIterate(_, _, _)
\* the iterate of unrestricted power iteration on m after j update steps,
\* from the normalised uniform vector
PowerIterate(m, j, n) ==
    IF j = 0 THEN Normalize(Uniform(n), n)
    ELSE Normalize(MatVec(m, PowerIterate(m, j - 1, n), n), n)

RECURSIVE PowerRun(_, _, _, _, _, _)
\* what unrestricted power iteration on m returns, run from xv at loop
\* index kv with the same test and the same cap
PowerRun(m, xv, kv, n, t, cap) ==
    LET xn == Normalize(MatVec(m, xv, n), n)
    IN  IF TestPasses(xn, xv, n, t) THEN Return(xv, kv)
        ELSE IF kv + 1 < cap THEN PowerRun(m, xn, kv + 1, n, t, cap)
        ELSE Return(xn, kv)

OutOfRange ==
    \/ tol <= 0
    \/ max_iter <= 0
    \/ solver = "subspace_hits" /\ (k_sub < 1 \/ k_sub > G.n)

\* C9: a call with an argument out of range performs no update step and
\* returns nothing (the part of the claim a run decides: such a call is to
\* fail before its loop).
C9_FailsBeforeAnyStep ==
    (G.n >= 1 /\ OutOfRange) => steps = 0 /\ ~ret.returned

\* --------------------------------------------------------------- C10
\* C10: on a graph with no nodes a solver never divides by n = 0, performs
\* no update step and returns no (empty) score vector.
C10_EmptyGraphRejected ==
    G.n = 0 =>
        /\ err # "ZeroDivisionError"
        /\ steps = 0
        /\ ~ret.returned

\* --------------------------------------------------------------- C11
\* the matrix a call works on, as its code derives it from the graph g
MatrixOf(g, sv, e) ==
    IF sv = "randomised_hits" THEN MixedMatrix(AuthMatrix(g), e, g.n)
    ELSE ScaledMatrix(AuthMatrix(g), g.n)

\* C11: calls in sequence leave the graph as it was built: no step changes
\* the node set, the order of the nodes or an edge, so in every call row and
\* column i of the matrix is node i of the one graph, and every vector
\* returned has one entry per node in that order.
C11_GraphUnchanged ==
    /\ [][G' = G]_vars
    /\ [](pc = "ITERATING" => M = MatrixOf(G, solver, eps))
    /\ [](ret.returned => DOMAIN ret.auth.v = Idx(G.n))
    /\ [](\A c \in 1..Len(calls) :
             calls[c].ret.returned => DOMAIN calls[c].ret.auth.v = Idx(G.n))

C11_Witness ==
    /\ Len(calls) = 1
    /\ calls[1].ret.returned
    /\ calls[1].solver = "randomised_hits"
    /\ solver = "subspace_hits"
    /\ ret.returned
    /\ G.n = MaxN
    /\ Cardinality(G.E) >= 2
    /\ \E e \in G.E : <<e[2], e[1]>> \notin G.E

\* --------------------------------------------------------------- C13
\* the calls that have ended, the current one included
EndedCalls == IF CallEnded THEN Append(calls, CallRecord) ELSE calls

SameInputs(a, b) ==
    /\ a.solver = b.solver
    /\ a.eps = b.eps
    /\ a.k_sub = b.k_sub
    /\ a.max_iter = b.max_iter
    /\ a.tol = b.tol

Counted ==
    { pos \in (1..Len(visits)) \X (1..MaxVisits) :
        /\ pos[2] < Len(visits[pos[1]])
        /\ \/ pos[1] < cursor[1]
           \/ pos[1] = cursor[1] /\ pos[2] < cursor[2] }

\* how many of the counted transitions go from s to t
Transitions(s, t) ==
    Cardinality({ pos \in Counted :
                    /\ visits[pos[1]][pos[2]] = s
                    /\ visits[pos[1]][pos[2] + 1] = t })

Built == cursor[1] = Len(visits) + 2

\* C12: after any number of transitions the weight held for the ordered
\* pair (s, t) is the number of s-then-t transitions counted so far, a pair
\* never seen has no entry, no pair has two entries, (s, t) and (t, s) are
\* counted apart, and the graph built at the end has exactly these edges and
\* weights.
C12_WeightsAreCounts ==
    /\ \A s, t \in Places :
          /\ DictHas(edges, <<s, t>>) <=> Transitions(s, t) > 0
          /\ DictHas(edges, <<s, t>>) => edges.val[<<s, t>>] = Transitions(s, t)
    /\ \A i, j \in 1..Len(edges.keys) : edges.keys[i] = edges.keys[j] => i = j
    /\ DOMAIN edges.val = { edges.keys[i] : i \in 1..Len(edges.keys) }
    /\ Built =>
          /\ G_sg.keys = edges.keys
          /\ \A c \in DOMAIN G_sg.val :
                G_sg.val[c] = Transitions(c[1], c[2])

C12_Witness ==
    /\ Built
    /\ DictGet(G_sg, <<"A", "B">>, 0) = 2
    /\ DictGet(G_sg, <<"B", "A">>, 0) = 1
    /\ Len(visits) = 2

\* --------------------------------------------------------------- C14
\* the arguments a call was started with
ConfigOf(r) ==
    [solver |-> r.solver, eps |-> r.eps, k_sub |-> r.k_sub,
     max_iter |-> r.max_iter, tol |-> r.tol]

\* what the caller of r gets: the returned pair or the exception
Outcome(r) == <<r.pc, r.ret, r.err>>

AloneOutcome(r) == Outcome(RunAlone(G, lapack, RunInit(ConfigOf(r))))

SingleNodeRecorded ==
    /\ solver = "pagerank"
    /\ G.n = 1
    /\ G.E = {}
    /\ DictHas(results, "PageRank")

\* C15: on a graph of a single node with no edge, PageRank reports the score
\* 1.0 for the node, iterations = 1 and converged = true.
C15_SingleNode ==
    SingleNodeRecorded =>
        LET e == results.val["PageRank"]
        IN  /\ e.scores = Frac(<<1>>, 1)
            /\ e.iters = [count |-> 1]
            /\ "converged" \in DOMAIN e
            /\ e.converged

\* --------------------------------------------------------------- C16
\* the unweighted directed cycle 1 -> 2 -> 3 -> 1
Cycle3 ==
    /\ G.n = 3
    /\ G.E = {<<1, 2>>, <<2, 3>>, <<3, 1>>}
    /\ \A e \in G.E : G.w[e] = 1

\* every node has the same score, and it is a number
EqualScores(y, n) ==
    /\ ~y.nan
    /\ \A i, j \in Idx(n) : y.v[i] = y.v[j]

Thirds == Frac(<<1, 1, 1>>, 3)

\* C16: on the unweighted three-node cycle PageRank, started from its
\* default uniform vector, gives every node the score 1/3 (every iterate and
\* the returned vector), and HITS gives all three nodes the same hub score
\* and all three the same authority score.
C16_CycleIsSymmetric ==
    Cycle3 =>
        /\ (solver = "pagerank" /\ Len(hist) >= 1 /\ hist[1] = Thirds) =>
              /\ \A j \in 1..Len(hist) : hist[j] = Thirds
              /\ ret.returned => ret.auth = Thirds
        /\ (solver = "hits" /\ pc \in {"ITERATING"} \cup Terminal) =>
              /\ EqualScores(x, G.n)
              /\ EqualScores(hub, G.n)
        /\ (solver = "hits" /\ ret.returned) =>
              /\ EqualScores(ret.auth, G.n)
              /\ EqualScores(hubs, G.n)
              /\ ret.auth.v[1] > 0
              /\ hubs.v[1] > 0

\* Both calls have been made on the cycle: the PageRank entry holds 1/3 for
\* every node and HITS has returned after at least one step.
C16_Witness ==
    /\ Cycle3
    /\ solver = "hits"
    /\ ret.returned
    /\ steps >= 1
    /\ DictHas(results, "PageRank")
    /\ results.val["PageRank"].scores = Thirds
    /\ EqualScores(ret.auth, G.n)
    /\ EqualScores(hubs, G.n)

\* --------------------------------------------------------------- C17
\* the score the call returned for a node of G_small
SmallScore(name) == ret.auth.v[NodeOf(name)]

\* no edge of g ends at node i
NoInbound(g, i) == \A e \in g.E : e[2] # i

\* the call on G_small with alpha = 0.85 has returned
SmallReturned ==
    /\ solver = "pagerank_small"
    /\ alpha = DefaultAlpha
    /\ ret.returned

\* Gardens by the Bay and Singapore Zoo each score strictly higher than
\* both Chinatown and Sentosa
SmallRanking ==
    \A hi \in {"Gardens by the Bay", "Singapore Zoo"} :
    \A lo \in {"Chinatown", "Sentosa"} :
       SmallScore(hi) > SmallScore(lo)

\* what rounding each of the n entries down at every step can take from the
\* sum: at most n / (1 - alpha) units of 1 / FloatScale
SumSlack == 34

\* C17 as the specification states it: six scores, and Chinatown and
\* Sentosa both without an inbound edge.
C17_SixScoresTwoSources ==
    SmallReturned =>
        /\ Len(ret.auth.v) = 6
        /\ \A i \in Idx(G.n) : ret.auth.v[i] > 0
        /\ SmallRanking
        /\ NoInbound(G, NodeOf("Chinatown"))
        /\ NoInbound(G, NodeOf("Sentosa"))

\* C17: on the example graph (six edges over five nodes) with alpha = 0.85,
\* all five PageRank scores are strictly positive and sum to 1 up to the
\* rounding of the arithmetic, and Gardens by the Bay and Singapore Zoo each
\* score strictly higher than both Chinatown and Sentosa.  Chinatown is the
\* only node without an inbound edge; Sentosa has one, from Marina Bay Sands.
C17_FiveScoresOneSource ==
    SmallReturned =>
        /\ G.n = 5
        /\ Cardinality(G.E) = 6
        /\ Len(ret.auth.v) = 5
        /\ \A i \in Idx(G.n) : ret.auth.v[i] > 0
        /\ Abs(SumTo(ret.auth.v, G.n) - FloatScale) <= SumSlack
        /\ SmallRanking
        /\ \A i \in Idx(G.n) : NoInbound(G, i) <=> i = NodeOf("Chinatown")
        /\ <<NodeOf("Marina Bay Sands"), NodeOf("Sentosa")>> \in G.E

\* The call with alpha = 0.85 has returned its scores after the test passed.
C17_Witness ==
    /\ SmallReturned
    /\ pc = "CONVERGED"
    /\ steps > 1
    /\ SmallRanking

\* --------------------------------------------------------------- C18
\* the nodes of a printed list
ListedNodes(t) == { t[i].node : i \in 1..Len(t) }

\* t is the top-K list of the score vector y
IsTopK(t, y) ==
    LET n == Len(y.v)
        its == Items(y)
    IN  /\ Len(t) = Min(TopCount, n)
        /\ \A i \in 1..Len(t) : t[i].node \in Idx(n) /\ t[i] = its[t[i].node]
        /\ \A i, j \in 1..Len(t) : i # j => t[i].node # t[j].node
        /\ \A i, j \in 1..Len(t) : i < j => ~ScoreLess(t[i], t[j])
        /\ \A o \in Idx(n) \ ListedNodes(t) :
           \A i \in 1..Len(t) : ~ScoreLess(t[i], its[o])
        /\ ~y.nan =>
              /\ \A i, j \in 1..Len(t) :
                    (i < j /\ t[i].score = t[j].score) => t[i].node < t[j].node
              /\ \A o \in Idx(n) \ ListedNodes(t) :
                 \A i \in 1..Len(t) :
                    t[i].score = its[o].score => t[i].node < o

\* C18: every printed list holds min(K, n) distinct nodes in non-increasing
\* score order, no node left out scores strictly higher than a listed one,
\* and among nodes of equal score the one earlier in the graph's insertion
\* order comes first and is the one kept at the cut-off.
C18_TopKOrdered ==
    \A pass \in 1..Len(shown) :
       /\ shown[pass][1] = results.keys[pass]
       /\ IsTopK(shown[pass][2], results.val[shown[pass][1]].scores)

\* A list was cut off inside a tie: more than K nodes, and a node left out
\* has the score of the last listed one.
C18_Witness ==
    /\ Len(shown) >= 1
    /\ LET y == results.val[shown[1][1]].scores
           t == shown[1][2]
       IN  /\ ~y.nan
           /\ Len(y.v) > TopCount
           /\ Len(t) = TopCount
           /\ t[1].score > t[TopCount].score
           /\ \E o \in Idx(Len(y.v)) \ ListedNodes(t) :
                 y.v[o] = t[TopCount].score
           /\ IsTopK(t, y)

\* --------------------------------------------------------------- C19
\* the keys of the vector are the nodes of g
OverGraphNodes(pv, g) ==
    { pv.keys[i] : i \in 1..Len(pv.keys) } = Idx(g.n)

NonNegative(pv) ==
    /\ pv.den > 0
    /\ \A c \in DOMAIN pv.num : pv.num[c] >= 0

\* the entries sum to 1
IsDistribution(pv) ==
    SumTo([i \in 1..Len(pv.keys) |-> pv.num[pv.keys[i]]], Len(pv.keys)) = pv.den

\* C19: the vector p that run_query hands to PageRank is, whatever the
\* similarities, a mapping over the graph's nodes with non-negative entries
\* that sum to 1.
C19_PersonalizationIsDistribution ==
    qpc = "PAGERANK" =>
        /\ OverGraphNodes(p, G)
        /\ NonNegative(p)
        /\ IsDistribution(p)

\* --------------------------------------------------------------- C20
\* C20: once a OneMap search for a term has completed successfully (its
\* response carried a results list), every lookup made later for a term with
\* the same lowercased, trimmed key, by searchOneMap or by
\* getThemeBasedResults, returns at once the results of the latest such
\* search and sends no request to OneMap; and nothing is ever taken out of
\* the cache.
C20_CachedAfterSuccess ==
    /\ [](\A i \in 1..Len(searches) :
             /\ searches[i].key = CacheKey(searches[i].term)
             /\ searches[i].after =>
                   /\ ~searches[i].http
                   /\ searches[i].status = "returned"
                   /\ searches[i].value = searches[i].expect)
    /\ [](Len(requests) =
             Cardinality({ i \in 1..Len(searches) : searches[i].http }))
    /\ [](\A c \in DOMAIN good.val :
             DictHas(apiCache, c) /\ apiCache.val[c] = good.val[c])
    /\ [][\A c \in DOMAIN apiCache.val : DictHas(apiCache', c)]_vars

\* A search for one spelling of a term completed successfully with an empty
\* result list, and a later searchOneMap call with another spelling of the
\* same key got that list from the cache: one request was sent in all.
C20_Witness ==
    /\ Len(searches) >= 2
    /\ searches[1].http
    /\ searches[1].status = "returned"
    /\ DictHas(good, searches[1].key)
    /\ \E i \in 2..Len(searches) :
          /\ searches[i].after
          /\ searches[i].by = "searchOneMap"
          /\ searches[i].key = searches[1].key
          /\ searches[i].term # searches[1].term
          /\ searches[i].value = <<>>
          /\ ~searches[i].http
    /\ Len(requests) = 1

\* --------------------------------------------------------------- C21
\* the body has no query, or an empty one
NoQuery(q) == q = Undefined \/ q = Str("")

\* C21: a POST to /api/hangout/search, /api/openai/chat or
\* /api/grammar/check whose body has no query, or an empty one, is answered
\* with status 400 and the error 'Missing query in request body', and the
\* handler calls neither OpenAI nor OneMap for it.
C21_MissingQueryIs400 ==
    \A i \in 1..Len(handled) :
        NoQuery(handled[i].query) =>
            /\ handled[i].stage = "done"
            /\ handled[i].status = 400
            /\ handled[i].error = "Missing query in request body"
            /\ handled[i].openai = 0
            /\ handled[i].onemap = 0

\* Each of the three routes has answered 400 to a body without a usable
\* query while the handler of an earlier request was waiting for OpenAI.
C21_Witness ==
    /\ Len(handled) = MaxRequests
    /\ handled[1].stage # "done" /\ handled[1].openai > 0
    /\ \E i, j \in 1..Len(handled) :
          /\ handled[i].query = Undefined
          /\ handled[j].query = Str("")
          /\ handled[i].route # handled[j].route
          /\ handled[i].status = 400 /\ handled[j].status = 400

\* --------------------------------------------------------------- C23
\* C23: however the loop is left, by the convergence test or by reaching
\* max_iter, the vector the call returns is the newest iterate, the last
\* value given to x_new, and not the iterate before it.
C23_ReturnsNewestIterate ==
    ret.returned =>
        /\ ret.auth = x_new
        /\ ret.auth = hist[Len(hist)]

\* --------------------------------------------------------------- C30
\* C30: a OneMap search that is aborted after 3 seconds, gets a status that
\* is not ok, gets a body without results or throws gives the handler an
\* empty list, not an exception, and leaves the cache as it was; so a later
\* search for the same key, none having succeeded meanwhile, sends a new
\* request to OneMap.
C30_FailureCachesNothing ==
    /\ [](\A i \in 1..Len(searches) :
             /\ searches[i].ended \in Failures =>
                   /\ searches[i].status = "returned"
                   /\ searches[i].value = <<>>
                   /\ searches[i].http
             /\ ~searches[i].after =>
                   /\ searches[i].http
                   /\ ~DictHas(apiCache, searches[i].key) \/ DictHas(good, searches[i].key))
    /\ [](\A c \in DOMAIN apiCache.val : DictHas(good, c))
    /\ [][\A i \in 1..Len(searches) :
             (searches[i].status = "pending" /\ searches'[i].ended \in Failures)
                 => apiCache' = apiCache]_vars

\* A search timed out; the next search for the same key was made after
\* that, sent a second request, and that one got a status that was not ok:
\* two requests went out and the cache is still empty.
C30_Witness ==
    /\ Len(searches) >= 2
    /\ searches[1].ended = "timeout"
    /\ searches[2].key = searches[1].key
    /\ searches[2].afterFailure
    /\ searches[2].http
    /\ searches[2].ended = "bad_status"
    /\ Len(requests) = 2
    /\ apiCache = NoDict

\* --------------------------------------------------------------- C22
\* C22: a successful answer of /api/hangout/search holds exactly
\* min(5, number of unique places collected) results, whatever the ranking
\* call gave.
C22_FiveOrAllUnique ==
    \A i \in 1..Len(hangouts) :
        hangouts[i].status = 200 =>
            Len(hangouts[i].results) = Min(maxResults, Len(hangouts[i].uniqueResults))

\* --------------------------------------------------------------- C26
\* C26: no successful answer of /api/hangout/search holds a place twice: no
\* two of its results have the same lowercased, trimmed name, whatever list
\* of index and rank the ranking call gave.
C26_NoPlaceTwice ==
    \A i \in 1..Len(hangouts) :
        hangouts[i].status = 200 =>
            \A a, b \in 1..Len(hangouts[i].results) :
                a # b => Trim(LowerCase(hangouts[i].results[a].name))
                             # Trim(LowerCase(hangouts[i].results[b].name))

\* --------------------------------------------------------------- C27
\* C27: no handler changes a venue object of the shared cache, and so an
\* answer whose ranking failed or was skipped has rank null and the default
\* image for every result, whatever earlier requests ranked.
C27_RankingIsTheRequestsOwn ==
    /\ [](\A i \in 1..Len(hangouts) :
             (hangouts[i].status = 200 /\ hangouts[i].ranking \in {"failed", "skipped"}) =>
                 \A a \in 1..Len(hangouts[i].results) :
                     /\ hangouts[i].results[a].rank = 0
                     /\ hangouts[i].results[a].imageUrl = "default")
    /\ [][venues' = venues]_vars

\* --------------------------------------------------------------- C25
\* the reply was parsed into an object
Parsed == parseText.kind \in {"json", "text with json"}

\* C25: when the parsed criteria say isIndoor is false, criteria.isIndoor is
\* false: the primary search term ends in 'outdoor' and the indoor/outdoor
\* preference is not listed as missing.  Only a field that is left out or
\* null leaves the preference unspecified.
C25_FalseStaysFalse ==
    (Parsed /\ cpc \in {"SEARCH", "DONE"}) =>
        /\ parseText.object.isIndoor = Bool(FALSE) =>
              /\ criteria.isIndoor = Bool(FALSE)
              /\ searchTerms[1][Len(searchTerms[1])] = "outdoor"
              /\ cpc = "DONE" =>
                    \A j \in 1..Len(missingCriteria) :
                        missingCriteria[j] # "indoor/outdoor preference"
        /\ criteria.isIndoor = Null =>
              parseText.object.isIndoor \in {Undefined, Null}

\* --------------------------------------------------------------- C24
\* fetches[i] is the search that was issued last
Newest(i) ==
    /\ fetches[i].kind = "search"
    /\ \A j \in (i + 1)..Len(fetches) : fetches[j].kind # "search"

\* the step is the arrival of the answer, or of the failure, of fetches[i]
Arrives(i) ==
    /\ fetches[i].kind = "search"
    /\ fetches[i].awaited
    /\ ~fetches'[i].awaited

\* C24: when searches overlap, only the answer or the failure of the search
\* issued last changes suggestions, results, error and isLoading; that of
\* an earlier search changes none of them, in whatever order they arrive
\* and also when two searches were issued in the same millisecond.
C24_OnlyNewestUpdates ==
    [][\A i \in 1..Len(fetches) : (Arrives(i) /\ ~Newest(i)) => react' = react]_vars

\* --------------------------------------------------------------- C28
\* C28: once the query has been cleared, the answer of a search issued
\* before that is never shown: neither suggestions nor results are its.
C28_ClearedStaysCleared ==
    \A i \in 1..Len(fetches) :
        fetches[i].cleared =>
            /\ react.suggestions # <<i>>
            /\ react.results # <<i>>

\* --------------------------------------------------------------- C29
\* C29: isLoading is true as long as the search issued last is awaited, and
\* it is false when neither a search nor a grammar check is awaited; in
\* particular the end of a grammar check does not clear it while a search
\* is awaited.
C29_LoadingFollowsNewestSearch ==
    /\ \A i \in 1..Len(fetches) :
          (Newest(i) /\ fetches[i].awaited) => react.isLoading
    /\ (\A i \in 1..Len(fetches) : ~fetches[i].awaited) => ~react.isLoading

\* the part of C29 about the end: when every answer arrives (SpecClientLive),
\* isLoading is false in the end and stays so
LoadingEnds == <>[](~react.isLoading)

====
